---- MODULE Spec2Model ----
(***************************************************************************)
(* sync-team, GitHub synchronisation (sync-team/src/github/mod.rs).        *)
(*                                                                         *)
(* The module models one reconciliation run as two operations:             *)
(*   CreateDiff  create_diff: SyncGitHub::new, then diff_all               *)
(*   Apply       Diff::apply, every write it issues in order               *)
(* over the declared state (teams, repos) and the provider state (gh).     *)
(* The provider itself (github/api) is modelled from the specification.    *)
(***************************************************************************)
EXTENDS Integers, Sequences, FiniteSets, TLC

VARIABLES
    teams,       \* SyncGitHub.teams: the declared GitHub teams, in order
    repos,       \* SyncGitHub.repos: the declared repos, in order
    gh,          \* the provider: [teams, repos, next_id]
    usernames,   \* the provider's users: user id -> username
    owners,      \* the provider's organisation owners: org -> set of user ids
    uses_pat,    \* GithubRead::uses_pat()
    hash_order,  \* the iteration order of this run's HashMaps
    read_errors, \* the provider's read calls may fail (transport errors)
    diff,        \* the Diff create_diff returned last
    writes,      \* the write calls the last Diff::apply issued, in order, each
                 \* with the entry of the Diff it belongs to
    reads,       \* the read calls the last create_diff issued, in order
    pc,          \* "idle" | "diffed" | "errored" | "panicked"
    run,         \* how many times create_diff has run
    last,        \* how the last Diff::apply ended: "none" | "ok" | "failed"
    aborted      \* an earlier Diff::apply returned an error

vars == <<teams, repos, gh, usernames, owners, uses_pat, hash_order, read_errors,
          diff, reads, writes, pc, run, last, aborted>>

-----------------------------------------------------------------------------
(* Bounds of the model *)

MaxRuns == 2
MaxTeams == 2
MaxApprovals == 2

-----------------------------------------------------------------------------
(* Option<T>, HashMap<K, V>, Vec<T> *)

None == <<>>
Some(x) == <<x>>
IsSome(o) == o # <<>>
Unwrap(o) == o[1]

EmptyMap == <<>>
MapRemove(m, k) == [x \in DOMAIN m \ {k} |-> m[x]]
MapPut(m, k, v) == [x \in DOMAIN m \cup {k} |-> IF x = k THEN v ELSE m[x]]

Reverse(s) == [i \in 1..Len(s) |-> s[Len(s) + 1 - i]]
Range(s) == {s[i] : i \in 1..Len(s)}

\* The strings of the model in their lexicographic order (str's Ord).
NameOrder ==
    <<"", "WG Ghost", "a", "alice", "b", "bob", "bors", "c", "core", "infra",
      "main", "next", "other", "rust-lang", "rust-lang-nursery", "rustbot", "security",
      "stable">>

Rank(s) == CHOOSE i \in 1..Len(NameOrder) : NameOrder[i] = s

RECURSIVE NamesAscending(_)
NamesAscending(S) ==
    IF S = {} THEN <<>>
    ELSE LET m == CHOOSE x \in S : \A y \in S : Rank(x) <= Rank(y)
         IN  <<m>> \o NamesAscending(S \ {m})

RECURSIVE IdsAscending(_)
IdsAscending(S) ==
    IF S = {} THEN <<>>
    ELSE LET m == CHOOSE x \in S : \A y \in S : x <= y
         IN  <<m>> \o IdsAscending(S \ {m})

\* Iterating a HashMap visits its keys in an order the program does not
\* choose: one of two orders, fixed at start.
HashIterNames(S) ==
    IF hash_order = "asc" THEN NamesAscending(S) ELSE Reverse(NamesAscending(S))

HashIterIds(S) ==
    IF hash_order = "asc" THEN IdsAscending(S) ELSE Reverse(IdsAscending(S))

\* Vec<String>::sort: a stable insertion sort by str's Ord.
RECURSIVE InsertSorted(_, _)
InsertSorted(s, x) ==
    IF s = <<>> THEN <<x>>
    ELSE IF Rank(x) < Rank(s[1]) THEN <<x>> \o s
    ELSE <<s[1]>> \o InsertSorted(Tail(s), x)

SortStringsAsGiven(s) == s

RECURSIVE SortStrings(_)
SortStrings(s) ==
    IF s = <<>> THEN <<>>
    ELSE InsertSorted(SortStrings(SubSeq(s, 1, Len(s) - 1)), s[Len(s)])

IsSorted(s) == \A i \in 1..(Len(s) - 1) : Rank(s[i]) <= Rank(s[i + 1])

-----------------------------------------------------------------------------
(* Program constants *)

DEFAULT_DESCRIPTION == "Managed by the rust-lang/team repository."
DEFAULT_PRIVACY == "Closed"
BOTS_TEAMS == {"bors", "highfive", "rfcbot", "bots"}
DeleteOrgs == {"rust-lang", "rust-lang-nursery"}
U8Max == 255

-----------------------------------------------------------------------------
(* GithubRead: the read capability, over a provider state G *)

\* team(org, name)
ReadTeam(G, org, name) ==
    IF <<org, name>> \in DOMAIN G.teams THEN Some(G.teams[<<org, name>>]) ELSE None

\* org_teams(org): the (name, slug) pairs of the org's teams, as name -> slug
ReadOrgTeams(G, org) ==
    [n \in {k[2] : k \in {x \in DOMAIN G.teams : x[1] = org}} |->
        G.teams[<<org, n>>].slug]

\* repo(org, name)
ReadRepo(G, org, name) ==
    IF <<org, name>> \in DOMAIN G.repos THEN Some(G.repos[<<org, name>>]) ELSE None

ReadUsernamesWithSubstitutes(ids) ==
    [u \in ids |-> IF u \in DOMAIN usernames THEN usernames[u] ELSE "ghost"]

\* usernames(ids): the users among ids that the provider knows
ReadUsernames(ids) ==
    [u \in ids \cap DOMAIN usernames |-> usernames[u]]

-----------------------------------------------------------------------------
(* SyncGitHub::new: the two caches *)

DeclaredUsers == UNION {Range(teams[i].members) : i \in 1..Len(teams)}
DeclaredOrgs == {teams[i].org : i \in 1..Len(teams)}

usernames_cache == ReadUsernames(DeclaredUsers)
org_owners == [o \in DeclaredOrgs |-> owners[o]]

ExpectedRoleMember(org, user) == "Member"

expected_role(org, user) ==
    IF org \in DOMAIN org_owners /\ user \in org_owners[org]
    THEN "Maintainer"
    ELSE "Member"

-----------------------------------------------------------------------------
(* SyncGitHub::diff_team *)

\* usernames_cache[member] panics for a member the cache does not hold.
TeamPanics(github_team) ==
    \E i \in 1..Len(github_team.members) :
        github_team.members[i] \notin DOMAIN usernames_cache

CreateTeamMembers(github_team) ==
    [i \in 1..Len(github_team.members) |->
        <<usernames_cache[github_team.members[i]],
          expected_role(github_team.org, github_team.members[i])>>]

\* The loop over the declared members: current_members loses each one found.
RECURSIVE MemberLoop(_, _, _, _, _)
MemberLoop(github_team, i, current_members, invites, member_diffs) ==
    IF i > Len(github_team.members)
    THEN [current_members |-> current_members, member_diffs |-> member_diffs]
    ELSE
        LET member == github_team.members[i]
            role == expected_role(github_team.org, member)
            username == usernames_cache[member]
            d == IF member \in DOMAIN current_members
                 THEN IF current_members[member].role # role
                      THEN [tag |-> "ChangeRole",
                            old |-> current_members[member].role, new |-> role]
                      ELSE [tag |-> "Noop"]
                 ELSE IF username \in invites
                      THEN [tag |-> "Noop"]
                      ELSE [tag |-> "Create", role |-> role]
        IN  MemberLoop(github_team, i + 1, MapRemove(current_members, member),
                       invites, Append(member_diffs, <<username, d>>))

MemberDeletesNone(current_members) == <<>>

MemberDeletes(current_members) ==
    LET ids == HashIterIds(DOMAIN current_members)
    IN  [i \in 1..Len(ids) |->
            <<current_members[ids[i]].username, [tag |-> "Delete"]>>]

diff_team(G, github_team) ==
    LET found == ReadTeam(G, github_team.org, github_team.name)
    IN  IF ~IsSome(found)
        THEN [kind |-> "Create",
              org |-> github_team.org,
              name |-> github_team.name,
              description |-> DEFAULT_DESCRIPTION,
              privacy |-> DEFAULT_PRIVACY,
              members |-> CreateTeamMembers(github_team)]
        ELSE
            LET team == Unwrap(found)
                name_diff == IF team.name # github_team.name
                             THEN Some(github_team.name) ELSE None
                description_diff ==
                    IF IsSome(team.description)
                    THEN IF Unwrap(team.description) # DEFAULT_DESCRIPTION
                         THEN Some(<<Unwrap(team.description), DEFAULT_DESCRIPTION>>)
                         ELSE None
                    ELSE Some(<<"", DEFAULT_DESCRIPTION>>)
                privacy_diff == IF team.privacy # DEFAULT_PRIVACY
                                THEN Some(<<team.privacy, DEFAULT_PRIVACY>>)
                                ELSE None
                loop == MemberLoop(github_team, 1, team.members, team.invites, <<>>)
            IN  [kind |-> "Edit",
                 org |-> github_team.org,
                 name |-> team.name,
                 name_diff |-> name_diff,
                 description_diff |-> description_diff,
                 privacy_diff |-> privacy_diff,
                 member_diffs |->
                     loop.member_diffs \o MemberDeletes(loop.current_members)]

\* MemberDiff::is_noop, EditTeamDiff::noop, TeamDiff::noop
MemberIsNoop(d) == d.tag = "Noop"

EditTeamNoopNever(e) == FALSE

EditTeamNoop(e) ==
    /\ ~IsSome(e.name_diff)
    /\ ~IsSome(e.description_diff)
    /\ ~IsSome(e.privacy_diff)
    /\ \A i \in 1..Len(e.member_diffs) : MemberIsNoop(e.member_diffs[i][2])

TeamDiffNoop(d) == IF d.kind = "Edit" THEN EditTeamNoop(d) ELSE FALSE

-----------------------------------------------------------------------------
(* SyncGitHub::diff_teams *)

RemoveSeenNever(ts, name) == ts

\* unseen_github_teams.remove(&github_team.name)
RemoveSeen(ts, name) == MapRemove(ts, name)

\* The loop over the declared teams: unseen_github_teams is fetched per org on
\* first reference and loses each declared name.
RECURSIVE TeamsLoop(_, _, _, _)
TeamsLoop(G, i, unseen_github_teams, diffs) ==
    IF i > Len(teams)
    THEN [unseen_github_teams |-> unseen_github_teams, diffs |-> diffs]
    ELSE
        LET github_team == teams[i]
            fetched == IF github_team.org \in DOMAIN unseen_github_teams
                       THEN unseen_github_teams
                       ELSE MapPut(unseen_github_teams, github_team.org,
                                   ReadOrgTeams(G, github_team.org))
            unseen == MapPut(fetched, github_team.org,
                             RemoveSeen(fetched[github_team.org], github_team.name))
            d == diff_team(G, github_team)
        IN  TeamsLoop(G, i + 1, unseen,
                      IF TeamDiffNoop(d) THEN diffs ELSE Append(diffs, d))

DeletableOrgAnywhere(org) == TRUE

\* matches!(org.as_str(), "rust-lang" | "rust-lang-nursery")
DeletableOrg(org) == org \in DeleteOrgs

\* !BOTS_TEAMS.contains(name)
DeletableTeam(name) == name \notin BOTS_TEAMS

OrgDeletes(org, remaining_github_teams) ==
    LET names == SelectSeq(HashIterNames(DOMAIN remaining_github_teams), DeletableTeam)
    IN  [i \in 1..Len(names) |->
            [kind |-> "Delete", org |-> org, name |-> names[i],
             slug |-> remaining_github_teams[names[i]]]]

RECURSIVE FlatDeletes(_, _, _)
FlatDeletes(orgs, i, unseen_github_teams) ==
    IF i > Len(orgs) THEN <<>>
    ELSE OrgDeletes(orgs[i], unseen_github_teams[orgs[i]])
         \o FlatDeletes(orgs, i + 1, unseen_github_teams)

delete_diffs(unseen_github_teams) ==
    FlatDeletes(SelectSeq(HashIterNames(DOMAIN unseen_github_teams), DeletableOrg),
                1, unseen_github_teams)

diff_teams(G) ==
    LET loop == TeamsLoop(G, 1, EmptyMap, <<>>)
    IN  loop.diffs \o delete_diffs(loop.unseen_github_teams)

-----------------------------------------------------------------------------
(* calculate_permission_diffs *)

\* convert_permission: v1::RepoPermission to api::RepoPermission
convert_permission(p) ==
    CASE p = "write" -> "Write"
      [] p = "admin" -> "Admin"
      [] p = "maintain" -> "Maintain"
      [] p = "triage" -> "Triage"

\* bot_user_name: None for a bot that is a GitHub app
bot_user_name(bot) ==
    CASE bot = "Bors" -> Some("bors")
      [] bot = "Highfive" -> Some("rust-highfive")
      [] bot = "RustTimer" -> Some("rust-timer")
      [] bot = "Rustbot" -> Some("rustbot")
      [] bot = "Rfcbot" -> Some("rfcbot")
      [] bot = "Craterbot" -> Some("craterbot")
      [] bot = "Glacierbot" -> Some("rust-lang-glacier-bot")
      [] bot = "LogAnalyzer" -> Some("rust-log-analyzer")
      [] bot = "Renovate" -> None

TeamCollaborator(name) == [tag |-> "Team", name |-> name]
UserCollaborator(name) == [tag |-> "User", name |-> name]

ReconcileAsAbsent(collaborator, actual, permission) ==
    <<[collaborator |-> collaborator, diff |-> [tag |-> "Create", new |-> permission]]>>

\* The match on the observed permission of one declared team or user: no
\* entry when it is already the declared one.
ReconcileOne(collaborator, actual, permission) ==
    IF IsSome(actual)
    THEN IF Unwrap(actual) # permission
         THEN <<[collaborator |-> collaborator,
                 diff |-> [tag |-> "Update", old |-> Unwrap(actual), new |-> permission]]>>
         ELSE <<>>
    ELSE <<[collaborator |-> collaborator,
            diff |-> [tag |-> "Create", new |-> permission]]>>

MapGet(m, k) == IF k \in DOMAIN m THEN Some(m[k]) ELSE None

\* for expected_team in &expected_repo.teams
RECURSIVE TeamPermissionLoop(_, _, _, _)
TeamPermissionLoop(expected_teams, i, actual_teams, permissions) ==
    IF i > Len(expected_teams)
    THEN [actual_teams |-> actual_teams, permissions |-> permissions]
    ELSE
        LET expected_team == expected_teams[i]
            permission == convert_permission(expected_team.permission)
        IN  TeamPermissionLoop(
                expected_teams, i + 1,
                MapRemove(actual_teams, expected_team.name),
                permissions \o ReconcileOne(TeamCollaborator(expected_team.name),
                                            MapGet(actual_teams, expected_team.name),
                                            permission))

BotPairsNone(bots, i) == <<>>

\* bots.chain(members): the (name, permission) pairs of the bot users, then
\* of the declared members
RECURSIVE BotPairs(_, _)
BotPairs(bots, i) ==
    IF i > Len(bots) THEN <<>>
    ELSE LET n == bot_user_name(bots[i])
         IN  (IF IsSome(n) THEN <<<<Unwrap(n), "Write">>>> ELSE <<>>)
             \o BotPairs(bots, i + 1)

MemberPairs(members) ==
    [i \in 1..Len(members) |->
        <<members[i].name, convert_permission(members[i].permission)>>]

\* The filter_map over the bots also drops an observed team bearing a bot's
\* user name.
RECURSIVE RemoveBotTeams(_, _, _)
RemoveBotTeams(bots, i, actual_teams) ==
    IF i > Len(bots) THEN actual_teams
    ELSE LET n == bot_user_name(bots[i])
         IN  RemoveBotTeams(bots, i + 1,
                            IF IsSome(n) THEN MapRemove(actual_teams, Unwrap(n))
                            ELSE actual_teams)

\* for (name, permission) in bots.chain(members)
RECURSIVE UserPermissionLoop(_, _, _, _)
UserPermissionLoop(pairs, i, actual_collaborators, permissions) ==
    IF i > Len(pairs)
    THEN [actual_collaborators |-> actual_collaborators, permissions |-> permissions]
    ELSE
        LET name == pairs[i][1]
            permission == pairs[i][2]
        IN  UserPermissionLoop(
                pairs, i + 1,
                MapRemove(actual_collaborators, name),
                permissions \o ReconcileOne(UserCollaborator(name),
                                            MapGet(actual_collaborators, name),
                                            permission))

KeepsTeamNever(org, name) == FALSE

KeepsSecurityAnywhere(org, name) == name = "security"

\* if t.name == "security" && expected_repo.org == "rust-lang" { continue; }
KeepsTeam(org, name) == name = "security" /\ org = "rust-lang"

\* for (team, t) in actual_teams
TeamDeletes(org, actual_teams) ==
    LET names == SelectSeq(HashIterNames(DOMAIN actual_teams),
                           LAMBDA n : ~KeepsTeam(org, n))
    IN  [i \in 1..Len(names) |->
            [collaborator |-> TeamCollaborator(names[i]),
             diff |-> [tag |-> "Delete", old |-> actual_teams[names[i]]]]]

\* for (collaborator, u) in actual_collaborators
CollaboratorDeletes(actual_collaborators) ==
    LET names == HashIterNames(DOMAIN actual_collaborators)
    IN  [i \in 1..Len(names) |->
            [collaborator |-> UserCollaborator(names[i]),
             diff |-> [tag |-> "Delete", old |-> actual_collaborators[names[i]]]]]

CalculatePermissionDiffsDeletesFirst(expected_repo, actual_teams, actual_collaborators) ==
    LET t == TeamPermissionLoop(expected_repo.teams, 1, actual_teams, <<>>)
        remaining_teams == RemoveBotTeams(expected_repo.bots, 1, t.actual_teams)
        u == UserPermissionLoop(
                 BotPairs(expected_repo.bots, 1) \o MemberPairs(expected_repo.members),
                 1, actual_collaborators, t.permissions)
    IN  CollaboratorDeletes(u.actual_collaborators)
        \o TeamDeletes(expected_repo.org, remaining_teams)
        \o u.permissions

calculate_permission_diffs(expected_repo, actual_teams, actual_collaborators) ==
    LET t == TeamPermissionLoop(expected_repo.teams, 1, actual_teams, <<>>)
        remaining_teams == RemoveBotTeams(expected_repo.bots, 1, t.actual_teams)
        u == UserPermissionLoop(
                 BotPairs(expected_repo.bots, 1) \o MemberPairs(expected_repo.members),
                 1, actual_collaborators, t.permissions)
    IN  u.permissions
        \o TeamDeletes(expected_repo.org, remaining_teams)
        \o CollaboratorDeletes(u.actual_collaborators)

\* SyncGitHub::diff_permissions: repo_teams and repo_collaborators, by name
diff_permissions(actual_repo, expected_repo) ==
    calculate_permission_diffs(expected_repo, actual_repo.teams,
                               actual_repo.collaborators)

-----------------------------------------------------------------------------
(* construct_branch_protection *)

ProtectionPanicsNever(branch_protection) == FALSE

\* required_approvals.try_into::<u8>().expect(..) panics above u8::MAX.
ProtectionPanics(branch_protection) ==
    /\ branch_protection.merge_bots = <<>>
    /\ branch_protection.mode.tag = "PrRequired"
    /\ branch_protection.mode.required_approvals > U8Max

TeamActor(org, name) == [tag |-> "Team", org |-> org, name |-> name]
UserActor(login) == [tag |-> "User", login |-> login]
IsApp(actor) == actor.tag = "App"

MergeBotLogin(merge_bot) ==
    CASE merge_bot = "Homu" -> "bors"
      [] merge_bot = "RustTimer" -> "rust-timer"

PR_NOT_REQUIRED == [tag |-> "PrNotRequired"]

EffectiveModeDeclared(branch_protection) == branch_protection.mode

\* let branch_protection_mode = if uses_merge_bot { PrNotRequired } else { mode }
EffectiveMode(branch_protection) ==
    IF branch_protection.merge_bots # <<>>
    THEN PR_NOT_REQUIRED
    ELSE branch_protection.mode

ApprovalCountOne(mode) == 1

ApprovalCount(mode) ==
    IF mode.tag = "PrRequired" THEN mode.required_approvals ELSE 0

construct_branch_protection(expected_repo, branch_protection) ==
    LET branch_protection_mode == EffectiveMode(branch_protection)
        team_allowances ==
            [i \in 1..Len(branch_protection.allowed_merge_teams) |->
                TeamActor(expected_repo.org, branch_protection.allowed_merge_teams[i])]
        bot_allowances ==
            [i \in 1..Len(branch_protection.merge_bots) |->
                UserActor(MergeBotLogin(branch_protection.merge_bots[i]))]
        checks == IF branch_protection_mode.tag = "PrRequired"
                  THEN branch_protection_mode.ci_checks
                  ELSE <<>>
    IN  [pattern |-> branch_protection.pattern,
         is_admin_enforced |-> TRUE,
         dismisses_stale_reviews |-> branch_protection.dismiss_stale_review,
         required_approving_review_count |-> ApprovalCount(branch_protection_mode),
         required_status_check_contexts |-> SortStrings(checks),
         push_allowances |-> team_allowances \o bot_allowances,
         requires_approving_reviews |-> branch_protection_mode.tag = "PrRequired"]

-----------------------------------------------------------------------------
(* SyncGitHub::diff_branch_protections *)

AppsOf(push_allowances) == SelectSeq(push_allowances, IsApp)

WithoutApps(expected, actual_allowances) == expected

\* expected_branch_protection.push_allowances.extend(the observed App actors)
WithApps(expected, actual_allowances) ==
    [expected EXCEPT !.push_allowances = @ \o AppsOf(actual_allowances)]

\* for branch_protection in &expected_repo.branch_protections
RECURSIVE ProtectionLoop(_, _, _, _)
ProtectionLoop(expected_repo, i, actual_protections, out) ==
    IF i > Len(expected_repo.branch_protections)
    THEN [actual_protections |-> actual_protections, diffs |-> out]
    ELSE
        LET branch_protection == expected_repo.branch_protections[i]
            actual == MapGet(actual_protections, branch_protection.pattern)
            projected == construct_branch_protection(expected_repo, branch_protection)
            expected == IF IsSome(actual)
                        THEN WithApps(projected, Unwrap(actual).bp.push_allowances)
                        ELSE projected
            operation ==
                IF IsSome(actual)
                THEN IF Unwrap(actual).bp # expected
                     THEN <<[tag |-> "Update", id |-> Unwrap(actual).id,
                             old |-> Unwrap(actual).bp, new |-> expected]>>
                     ELSE <<>>
                ELSE <<[tag |-> "Create", new |-> expected]>>
        IN  ProtectionLoop(
                expected_repo, i + 1,
                MapRemove(actual_protections, branch_protection.pattern),
                out \o [j \in 1..Len(operation) |->
                           [pattern |-> branch_protection.pattern,
                            operation |-> operation[j]]])

ProtectionDeletes(actual_protections) ==
    LET names == HashIterNames(DOMAIN actual_protections)
    IN  [i \in 1..Len(names) |->
            [pattern |-> names[i],
             operation |-> [tag |-> "Delete", id |-> actual_protections[names[i]].id]]]

PRIVILEGED_REPO == <<"rust-lang", "rust">>

SkipsProtectionsNever(actual_repo) == FALSE

\* !self.github.uses_pat() && actual_repo.org == "rust-lang" && actual_repo.name == "rust"
SkipsProtections(actual_repo) ==
    ~uses_pat /\ <<actual_repo.org, actual_repo.name>> = PRIVILEGED_REPO

diff_branch_protections(actual_repo, expected_repo) ==
    IF SkipsProtections(actual_repo)
    THEN <<>>
    ELSE LET loop == ProtectionLoop(expected_repo, 1, actual_repo.protections, <<>>)
         IN  loop.diffs \o ProtectionDeletes(loop.actual_protections)

-----------------------------------------------------------------------------
(* SyncGitHub::diff_repo, diff_repos *)

\* construct_branch_protection is not reached when the protections are skipped.
RepoPanics(G, expected_repo) ==
    /\ \E i \in 1..Len(expected_repo.branch_protections) :
        ProtectionPanics(expected_repo.branch_protections[i])
    /\ LET found == ReadRepo(G, expected_repo.org, expected_repo.name)
       IN  IsSome(found) => ~SkipsProtections(Unwrap(found))

Settings(description, homepage, archived, auto_merge_enabled) ==
    [description |-> description, homepage |-> homepage,
     archived |-> archived, auto_merge_enabled |-> auto_merge_enabled]

CreateArchivedAsDeclared(expected_repo) == expected_repo.archived

\* archived: false in the settings of a Create
CreateArchived(expected_repo) == FALSE

diff_repo(G, expected_repo) ==
    LET found == ReadRepo(G, expected_repo.org, expected_repo.name)
    IN  IF ~IsSome(found)
        THEN [kind |-> "Create",
              org |-> expected_repo.org,
              name |-> expected_repo.name,
              settings |-> Settings(expected_repo.description, expected_repo.homepage,
                                    CreateArchived(expected_repo),
                                    expected_repo.auto_merge_enabled),
              permissions |->
                  calculate_permission_diffs(expected_repo, EmptyMap, EmptyMap),
              branch_protections |->
                  [i \in 1..Len(expected_repo.branch_protections) |->
                      <<expected_repo.branch_protections[i].pattern,
                        construct_branch_protection(
                            expected_repo, expected_repo.branch_protections[i])>>]]
        ELSE
            LET actual_repo == Unwrap(found)
                old_settings ==
                    Settings(actual_repo.description, actual_repo.homepage,
                             actual_repo.archived,
                             IF IsSome(actual_repo.allow_auto_merge)
                             THEN Unwrap(actual_repo.allow_auto_merge) ELSE FALSE)
                new_settings ==
                    Settings(expected_repo.description, expected_repo.homepage,
                             expected_repo.archived, expected_repo.auto_merge_enabled)
            IN  [kind |-> "Update",
                 org |-> expected_repo.org,
                 name |-> actual_repo.name,
                 repo_node_id |-> actual_repo.node_id,
                 settings_diff |-> <<old_settings, new_settings>>,
                 permission_diffs |-> diff_permissions(actual_repo, expected_repo),
                 branch_protection_diffs |->
                     diff_branch_protections(actual_repo, expected_repo)]

CanBeModifiedAlways(u) == TRUE

\* UpdateRepoDiff::can_be_modified
can_be_modified(u) == ~(u.settings_diff[2].archived /\ u.settings_diff[1].archived)

\* UpdateRepoDiff::noop, RepoDiff::noop
UpdateRepoNoop(u) ==
    IF ~can_be_modified(u) THEN TRUE
    ELSE /\ u.settings_diff[1] = u.settings_diff[2]
         /\ u.permission_diffs = <<>>
         /\ u.branch_protection_diffs = <<>>

RepoDiffNoop(d) == IF d.kind = "Update" THEN UpdateRepoNoop(d) ELSE FALSE

RECURSIVE ReposLoop(_, _, _)
ReposLoop(G, i, diffs) ==
    IF i > Len(repos) THEN diffs
    ELSE LET d == diff_repo(G, repos[i])
         IN  ReposLoop(G, i + 1, IF RepoDiffNoop(d) THEN diffs ELSE Append(diffs, d))

diff_repos(G) == ReposLoop(G, 1, <<>>)

\* SyncGitHub::diff_all
diff_all(G) == [team_diffs |-> diff_teams(G), repo_diffs |-> diff_repos(G)]

\* Diff::is_empty
is_empty(d) == d.team_diffs = <<>> /\ d.repo_diffs = <<>>

\* The places where create_diff panics instead of returning.
DiffPanics ==
    \/ \E i \in 1..Len(teams) : TeamPanics(teams[i])
    \/ \E i \in 1..Len(repos) : RepoPanics(gh, repos[i])

-----------------------------------------------------------------------------
(* The read calls of create_diff, in the order the code issues them *)

RECURSIVE Flatten(_)
Flatten(ss) == IF ss = <<>> THEN <<>> ELSE Head(ss) \o Flatten(Tail(ss))

\* diff_team: team, then for an existing team its memberships and invitations
TeamReads(G, github_team) ==
    LET key == <<github_team.org, github_team.name>>
    IN  <<[op |-> "team", args |-> key, ok |-> TRUE]>>
        \o IF IsSome(ReadTeam(G, github_team.org, github_team.name))
           THEN <<[op |-> "team_memberships", args |-> key, ok |-> TRUE],
                  [op |-> "team_membership_invitations", args |-> key, ok |-> TRUE]>>
           ELSE <<>>

\* diff_repo: repo, then for an existing repo its teams, its collaborators and,
\* unless they are skipped, its branch protections
RepoReads(G, expected_repo) ==
    LET key == <<expected_repo.org, expected_repo.name>>
        found == ReadRepo(G, expected_repo.org, expected_repo.name)
    IN  <<[op |-> "repo", args |-> key, ok |-> TRUE]>>
        \o IF IsSome(found)
           THEN <<[op |-> "repo_teams", args |-> key, ok |-> TRUE],
                  [op |-> "repo_collaborators", args |-> key, ok |-> TRUE]>>
                \o IF SkipsProtections(Unwrap(found))
                   THEN <<>>
                   ELSE <<[op |-> "branch_protections",
                           args |-> <<Unwrap(found).org, Unwrap(found).name>>,
                           ok |-> TRUE]>>
           ELSE <<>>

\* SyncGitHub::new reads the usernames and the owners of each declared org;
\* diff_teams reads the teams of an org before the first declared team of the
\* org; a panic ends the calls with those of the team or repo that panics.
ReadCalls(G) ==
    LET orgs == HashIterNames(DeclaredOrgs)
        new_reads ==
            <<[op |-> "usernames", args |-> DeclaredUsers, ok |-> TRUE]>>
            \o [i \in 1..Len(orgs) |-> [op |-> "org_owners", args |-> orgs[i], ok |-> TRUE]]
        team_reads ==
            [i \in 1..Len(teams) |->
                (IF \A j \in 1..(i - 1) : teams[j].org # teams[i].org
                 THEN <<[op |-> "org_teams", args |-> teams[i].org, ok |-> TRUE]>>
                 ELSE <<>>)
                \o TeamReads(G, teams[i])]
        repo_reads == [j \in 1..Len(repos) |-> RepoReads(G, repos[j])]
        panics == [i \in 1..Len(teams) |-> TeamPanics(teams[i])]
                  \o [j \in 1..Len(repos) |-> RepoPanics(G, repos[j])]
        entries == team_reads \o repo_reads
        stop == IF \E i \in 1..Len(panics) : panics[i]
                THEN CHOOSE i \in 1..Len(panics) :
                        panics[i] /\ \A j \in 1..(i - 1) : ~panics[j]
                ELSE Len(entries)
    IN  new_reads \o Flatten(SubSeq(entries, 1, stop))

-----------------------------------------------------------------------------
(* GitHubWrite: the write capability, as functions of the provider state *)

\* The provider's URL form of a team name.
SlugOf(name) == IF name = "WG Ghost" THEN "wg-ghost" ELSE name

\* The accounts of the provider, by user id
Users == (7 :> "bob") @@ (42 :> "alice")

UserIdOf(username) ==
    IF \E u \in DOMAIN Users : Users[u] = username
    THEN Some(CHOOSE u \in DOMAIN Users : Users[u] = username)
    ELSE None

Gh_create_team(G, org, name, description, privacy) ==
    IF <<org, name>> \in DOMAIN G.teams THEN G
    ELSE [G EXCEPT !.teams =
            MapPut(@, <<org, name>>,
                   [name |-> name, slug |-> SlugOf(name),
                    description |-> Some(description), privacy |-> privacy,
                    members |-> EmptyMap, invites |-> {}])]

Gh_edit_team(G, org, name, new_name, new_description, new_privacy) ==
    IF <<org, name>> \notin DOMAIN G.teams THEN G
    ELSE LET t == G.teams[<<org, name>>]
             n == IF IsSome(new_name) THEN Unwrap(new_name) ELSE name
             t2 == [t EXCEPT
                      !.name = n,
                      !.slug = SlugOf(n),
                      !.description = IF IsSome(new_description)
                                      THEN new_description ELSE @,
                      !.privacy = IF IsSome(new_privacy)
                                  THEN Unwrap(new_privacy) ELSE @]
         IN  [G EXCEPT !.teams = MapPut(MapRemove(@, <<org, name>>), <<org, n>>, t2)]

Gh_delete_team(G, org, slug) ==
    [G EXCEPT !.teams =
        [k \in {x \in DOMAIN @ : ~(x[1] = org /\ @[x].slug = slug)} |-> @[k]]]

Gh_set_team_membership(G, org, team, member, role) ==
    IF <<org, team>> \in DOMAIN G.teams /\ IsSome(UserIdOf(member))
    THEN [G EXCEPT !.teams[<<org, team>>].members =
            MapPut(@, Unwrap(UserIdOf(member)), [username |-> member, role |-> role])]
    ELSE G

Gh_remove_team_membership(G, org, team, member) ==
    IF <<org, team>> \in DOMAIN G.teams /\ IsSome(UserIdOf(member))
    THEN [G EXCEPT !.teams[<<org, team>>].members =
            MapRemove(@, Unwrap(UserIdOf(member)))]
    ELSE G

Gh_create_repo(G, org, name, settings) ==
    IF <<org, name>> \in DOMAIN G.repos THEN G
    ELSE [G EXCEPT
            !.repos = MapPut(@, <<org, name>>,
                [org |-> org, name |-> name, node_id |-> G.next_id,
                 description |-> settings.description,
                 homepage |-> settings.homepage,
                 archived |-> settings.archived,
                 allow_auto_merge |-> Some(settings.auto_merge_enabled),
                 teams |-> EmptyMap, collaborators |-> EmptyMap,
                 protections |-> EmptyMap]),
            !.next_id = @ + 1]

Gh_edit_repo(G, org, name, settings) ==
    IF <<org, name>> \notin DOMAIN G.repos THEN G
    ELSE [G EXCEPT !.repos[<<org, name>>] =
            [@ EXCEPT !.description = settings.description,
                      !.homepage = settings.homepage,
                      !.archived = settings.archived,
                      !.allow_auto_merge = Some(settings.auto_merge_enabled)]]

Gh_update_team_repo_permissions(G, org, repo, team, permission) ==
    IF <<org, repo>> \notin DOMAIN G.repos THEN G
    ELSE [G EXCEPT !.repos[<<org, repo>>].teams = MapPut(@, team, permission)]

Gh_update_user_repo_permissions(G, org, repo, user, permission) ==
    IF <<org, repo>> \notin DOMAIN G.repos THEN G
    ELSE [G EXCEPT !.repos[<<org, repo>>].collaborators = MapPut(@, user, permission)]

Gh_remove_team_from_repo(G, org, repo, team) ==
    IF <<org, repo>> \notin DOMAIN G.repos THEN G
    ELSE [G EXCEPT !.repos[<<org, repo>>].teams = MapRemove(@, team)]

Gh_remove_collaborator_from_repo(G, org, repo, user) ==
    IF <<org, repo>> \notin DOMAIN G.repos THEN G
    ELSE [G EXCEPT !.repos[<<org, repo>>].collaborators = MapRemove(@, user)]

CreateForRepo(node_id) == [tag |-> "CreateForRepo", id |-> node_id]
UpdateBranchProtection(id) == [tag |-> "UpdateBranchProtection", id |-> id]

Gh_upsert_branch_protection(G, op, pattern, bp, org) ==
    IF op.tag = "CreateForRepo"
    THEN [G EXCEPT
            !.repos = [k \in DOMAIN @ |->
                IF @[k].node_id = op.id /\ pattern \notin DOMAIN @[k].protections
                THEN [@[k] EXCEPT !.protections =
                        MapPut(@, pattern, [id |-> G.next_id, bp |-> bp])]
                ELSE @[k]],
            !.next_id = @ + 1]
    ELSE [G EXCEPT
            !.repos = [k \in DOMAIN @ |->
                [@[k] EXCEPT !.protections =
                    [p \in DOMAIN @ |->
                        IF @[p].id = op.id THEN [id |-> op.id, bp |-> bp] ELSE @[p]]]]]

Gh_delete_branch_protection(G, org, repo, id) ==
    IF <<org, repo>> \notin DOMAIN G.repos THEN G
    ELSE [G EXCEPT !.repos[<<org, repo>>].protections =
            [p \in {x \in DOMAIN @ : @[x].id # id} |-> @[p]]]

-----------------------------------------------------------------------------
(* Diff::apply.  W is the state of one apply: the provider, the writes issued
   so far, how many more writes succeed (budget), and whether a write has
   failed (err): after a failure `?` returns from every enclosing apply, so
   no later write is issued. *)

Write(op, entry, args) == [op |-> op, entry |-> entry, ok |-> TRUE, args |-> args]

\* A failing call that lets the calls after it go on
CallContinues(W, w, G2) ==
    IF W.budget = 0
    THEN [W EXCEPT !.err = TRUE, !.writes = Append(@, [w EXCEPT !.ok = FALSE]),
                   !.budget = @ - 1]
    ELSE [W EXCEPT !.gh = G2, !.writes = Append(@, w), !.budget = @ - 1]

Call(W, w, G2) ==
    IF W.err THEN W
    ELSE IF W.budget = 0
         THEN [W EXCEPT !.err = TRUE, !.writes = Append(@, [w EXCEPT !.ok = FALSE])]
         ELSE [W EXCEPT !.gh = G2, !.writes = Append(@, w), !.budget = @ - 1]

\* MemberDiff::apply
MemberDiffApply(W, entry, org, team, member, d) ==
    CASE d.tag = "Create" ->
            Call(W, Write("set_team_membership", entry,
                          [org |-> org, team |-> team, member |-> member, role |-> d.role]),
                 Gh_set_team_membership(W.gh, org, team, member, d.role))
      [] d.tag = "ChangeRole" ->
            Call(W, Write("set_team_membership", entry,
                          [org |-> org, team |-> team, member |-> member, role |-> d.new]),
                 Gh_set_team_membership(W.gh, org, team, member, d.new))
      [] d.tag = "Delete" ->
            Call(W, Write("remove_team_membership", entry,
                          [org |-> org, team |-> team, member |-> member]),
                 Gh_remove_team_membership(W.gh, org, team, member))
      [] d.tag = "Noop" -> W

\* CreateTeamDiff::apply
RECURSIVE CreateTeamMembersApply(_, _, _, _)
CreateTeamMembersApply(W, entry, c, i) ==
    IF i > Len(c.members) THEN W
    ELSE CreateTeamMembersApply(
            MemberDiffApply(W, entry, c.org, c.name, c.members[i][1],
                            [tag |-> "Create", role |-> c.members[i][2]]),
            entry, c, i + 1)

CreateTeamApplyMembersAnyway(W, entry, c) ==
    LET W1 == Call(W, Write("create_team", entry,
                            [org |-> c.org, name |-> c.name,
                             description |-> c.description, privacy |-> c.privacy]),
                   Gh_create_team(W.gh, c.org, c.name, c.description, c.privacy))
    IN  CreateTeamMembersApply([W1 EXCEPT !.err = W.err], entry, c, 1)

CreateTeamApply(W, entry, c) ==
    CreateTeamMembersApply(
        Call(W, Write("create_team", entry,
                      [org |-> c.org, name |-> c.name,
                       description |-> c.description, privacy |-> c.privacy]),
             Gh_create_team(W.gh, c.org, c.name, c.description, c.privacy)),
        entry, c, 1)

\* EditTeamDiff::apply
RECURSIVE EditTeamMembersApply(_, _, _, _)
EditTeamMembersApply(W, entry, e, i) ==
    IF i > Len(e.member_diffs) THEN W
    ELSE EditTeamMembersApply(
            MemberDiffApply(W, entry, e.org, e.name, e.member_diffs[i][1],
                            e.member_diffs[i][2]),
            entry, e, i + 1)

EditTeamApplyMembersFirst(W, entry, e) ==
    LET new_description == IF IsSome(e.description_diff)
                           THEN Some(Unwrap(e.description_diff)[2]) ELSE None
        new_privacy == IF IsSome(e.privacy_diff)
                       THEN Some(Unwrap(e.privacy_diff)[2]) ELSE None
        W1 == EditTeamMembersApply(W, entry, e, 1)
    IN  IF IsSome(e.name_diff) \/ IsSome(e.description_diff) \/ IsSome(e.privacy_diff)
        THEN Call(W1, Write("edit_team", entry,
                            [org |-> e.org, name |-> e.name,
                             new_name |-> e.name_diff,
                             new_description |-> new_description,
                             new_privacy |-> new_privacy]),
                  Gh_edit_team(W1.gh, e.org, e.name, e.name_diff,
                               new_description, new_privacy))
        ELSE W1

EditTeamApply(W, entry, e) ==
    LET new_description == IF IsSome(e.description_diff)
                           THEN Some(Unwrap(e.description_diff)[2]) ELSE None
        new_privacy == IF IsSome(e.privacy_diff)
                       THEN Some(Unwrap(e.privacy_diff)[2]) ELSE None
        W1 == IF IsSome(e.name_diff) \/ IsSome(e.description_diff)
                 \/ IsSome(e.privacy_diff)
              THEN Call(W, Write("edit_team", entry,
                                 [org |-> e.org, name |-> e.name,
                                  new_name |-> e.name_diff,
                                  new_description |-> new_description,
                                  new_privacy |-> new_privacy]),
                        Gh_edit_team(W.gh, e.org, e.name, e.name_diff,
                                     new_description, new_privacy))
              ELSE W
    IN  EditTeamMembersApply(W1, entry, e, 1)

DeleteTeamByName(d) == d.name

\* sync.delete_team(&self.org, &self.slug)
DeleteTeamArg(d) == d.slug

\* DeleteTeamDiff::apply
DeleteTeamApply(W, entry, d) ==
    Call(W, Write("delete_team", entry, [org |-> d.org, slug |-> DeleteTeamArg(d)]),
         Gh_delete_team(W.gh, d.org, DeleteTeamArg(d)))

\* TeamDiff::apply
TeamDiffApply(W, entry, d) ==
    CASE d.kind = "Create" -> CreateTeamApply(W, entry, d)
      [] d.kind = "Edit" -> EditTeamApply(W, entry, d)
      [] d.kind = "Delete" -> DeleteTeamApply(W, entry, d)

PermissionApplySkipped(W, entry, p, org, repo_name) == W

\* RepoPermissionAssignmentDiff::apply
PermissionApply(W, entry, p, org, repo_name) ==
    IF p.diff.tag \in {"Create", "Update"}
    THEN IF p.collaborator.tag = "Team"
         THEN Call(W, Write("update_team_repo_permissions", entry,
                            [org |-> org, repo |-> repo_name,
                             team |-> p.collaborator.name, permission |-> p.diff.new]),
                   Gh_update_team_repo_permissions(W.gh, org, repo_name,
                                                   p.collaborator.name, p.diff.new))
         ELSE Call(W, Write("update_user_repo_permissions", entry,
                            [org |-> org, repo |-> repo_name,
                             user |-> p.collaborator.name, permission |-> p.diff.new]),
                   Gh_update_user_repo_permissions(W.gh, org, repo_name,
                                                   p.collaborator.name, p.diff.new))
    ELSE IF p.collaborator.tag = "Team"
         THEN Call(W, Write("remove_team_from_repo", entry,
                            [org |-> org, repo |-> repo_name,
                             team |-> p.collaborator.name]),
                   Gh_remove_team_from_repo(W.gh, org, repo_name, p.collaborator.name))
         ELSE Call(W, Write("remove_collaborator_from_repo", entry,
                            [org |-> org, repo |-> repo_name,
                             user |-> p.collaborator.name]),
                   Gh_remove_collaborator_from_repo(W.gh, org, repo_name,
                                                    p.collaborator.name))

RECURSIVE PermissionsApply(_, _, _, _, _, _)
PermissionsApply(W, entry, ps, org, repo_name, i) ==
    IF i > Len(ps) THEN W
    ELSE PermissionsApply(PermissionApply(W, entry, ps[i], org, repo_name),
                          entry, ps, org, repo_name, i + 1)

BranchProtectionApplyUpdateAsCreate(W, entry, b, org, repo_name, repo_id) ==
    IF b.operation.tag = "Delete"
    THEN Call(W, Write("delete_branch_protection", entry,
                       [org |-> org, repo |-> repo_name, id |-> b.operation.id]),
              Gh_delete_branch_protection(W.gh, org, repo_name, b.operation.id))
    ELSE Call(W, Write("upsert_branch_protection", entry,
                       [op |-> CreateForRepo(repo_id), pattern |-> b.pattern,
                        bp |-> b.operation.new, org |-> org]),
              Gh_upsert_branch_protection(W.gh, CreateForRepo(repo_id), b.pattern,
                                          b.operation.new, org))

\* BranchProtectionDiff::apply
BranchProtectionApply(W, entry, b, org, repo_name, repo_id) ==
    CASE b.operation.tag = "Create" ->
            Call(W, Write("upsert_branch_protection", entry,
                          [op |-> CreateForRepo(repo_id), pattern |-> b.pattern,
                           bp |-> b.operation.new, org |-> org]),
                 Gh_upsert_branch_protection(W.gh, CreateForRepo(repo_id), b.pattern,
                                             b.operation.new, org))
      [] b.operation.tag = "Update" ->
            Call(W, Write("upsert_branch_protection", entry,
                          [op |-> UpdateBranchProtection(b.operation.id),
                           pattern |-> b.pattern, bp |-> b.operation.new, org |-> org]),
                 Gh_upsert_branch_protection(W.gh, UpdateBranchProtection(b.operation.id),
                                             b.pattern, b.operation.new, org))
      [] b.operation.tag = "Delete" ->
            Call(W, Write("delete_branch_protection", entry,
                          [org |-> org, repo |-> repo_name, id |-> b.operation.id]),
                 Gh_delete_branch_protection(W.gh, org, repo_name, b.operation.id))

RECURSIVE BranchProtectionsApply(_, _, _, _, _, _, _)
BranchProtectionsApply(W, entry, bs, org, repo_name, repo_id, i) ==
    IF i > Len(bs) THEN W
    ELSE BranchProtectionsApply(
            BranchProtectionApply(W, entry, bs[i], org, repo_name, repo_id),
            entry, bs, org, repo_name, repo_id, i + 1)

\* CreateRepoDiff::apply: the protections are created for the node id that
\* create_repo returned.
CreateRepoApply(W, entry, c) ==
    LET W1 == Call(W, Write("create_repo", entry,
                            [org |-> c.org, name |-> c.name, settings |-> c.settings]),
                   Gh_create_repo(W.gh, c.org, c.name, c.settings))
        repo_node_id == IF <<c.org, c.name>> \in DOMAIN W1.gh.repos
                        THEN W1.gh.repos[<<c.org, c.name>>].node_id ELSE 0
        W2 == PermissionsApply(W1, entry, c.permissions, c.org, c.name, 1)
    IN  BranchProtectionsApply(
            W2, entry,
            [i \in 1..Len(c.branch_protections) |->
                [pattern |-> c.branch_protections[i][1],
                 operation |-> [tag |-> "Create", new |-> c.branch_protections[i][2]]]],
            c.org, c.name, repo_node_id, 1)

EditRepoCall(W, entry, u) ==
    Call(W, Write("edit_repo", entry,
                  [org |-> u.org, name |-> u.name, settings |-> u.settings_diff[2]]),
         Gh_edit_repo(W.gh, u.org, u.name, u.settings_diff[2]))

IsUnarchiveNever(u) == FALSE

IsUnarchiveAlways(u) == TRUE

\* let is_unarchive = self.settings_diff.0.archived && !self.settings_diff.1.archived
IsUnarchive(u) == u.settings_diff[1].archived /\ ~u.settings_diff[2].archived

UpdateRepoApplyProtectionsFirst(W, entry, u) ==
    IF ~can_be_modified(u) THEN W
    ELSE
        LET W1 == IF IsUnarchive(u) THEN EditRepoCall(W, entry, u) ELSE W
            W2 == BranchProtectionsApply(W1, entry, u.branch_protection_diffs,
                                         u.org, u.name, u.repo_node_id, 1)
            W3 == PermissionsApply(W2, entry, u.permission_diffs, u.org, u.name, 1)
        IN  IF ~IsUnarchive(u) /\ u.settings_diff[1] # u.settings_diff[2]
            THEN EditRepoCall(W3, entry, u)
            ELSE W3

UpdateRepoApplyEditsTwice(W, entry, u) ==
    IF ~can_be_modified(u) THEN W
    ELSE
        LET W1 == IF IsUnarchive(u) THEN EditRepoCall(W, entry, u) ELSE W
            W2 == PermissionsApply(W1, entry, u.permission_diffs, u.org, u.name, 1)
            W3 == BranchProtectionsApply(W2, entry, u.branch_protection_diffs,
                                         u.org, u.name, u.repo_node_id, 1)
        IN  IF u.settings_diff[1] # u.settings_diff[2]
            THEN EditRepoCall(W3, entry, u)
            ELSE W3

\* UpdateRepoDiff::apply
UpdateRepoApply(W, entry, u) ==
    IF ~can_be_modified(u) THEN W
    ELSE
        LET W1 == IF IsUnarchive(u) THEN EditRepoCall(W, entry, u) ELSE W
            W2 == PermissionsApply(W1, entry, u.permission_diffs, u.org, u.name, 1)
            W3 == BranchProtectionsApply(W2, entry, u.branch_protection_diffs,
                                         u.org, u.name, u.repo_node_id, 1)
        IN  IF ~IsUnarchive(u) /\ u.settings_diff[1] # u.settings_diff[2]
            THEN EditRepoCall(W3, entry, u)
            ELSE W3

\* RepoDiff::apply
RepoDiffApply(W, entry, d) ==
    CASE d.kind = "Create" -> CreateRepoApply(W, entry, d)
      [] d.kind = "Update" -> UpdateRepoApply(W, entry, d)

RECURSIVE TeamDiffsApply(_, _, _)
TeamDiffsApply(W, ds, i) ==
    IF i > Len(ds) THEN W
    ELSE TeamDiffsApply(TeamDiffApply(W, <<"team", i>>, ds[i]), ds, i + 1)

RECURSIVE RepoDiffsApply(_, _, _)
RepoDiffsApply(W, ds, i) ==
    IF i > Len(ds) THEN W
    ELSE RepoDiffsApply(RepoDiffApply(W, <<"repo", i>>, ds[i]), ds, i + 1)

DiffApplyReposFirst(W, d) ==
    TeamDiffsApply(RepoDiffsApply(W, d.repo_diffs, 1), d.team_diffs, 1)

\* Diff::apply
DiffApply(W, d) == RepoDiffsApply(TeamDiffsApply(W, d.team_diffs, 1), d.repo_diffs, 1)

\* A budget below zero never runs out: no write fails.
StartApply(G, budget) == [gh |-> G, writes |-> <<>>, budget |-> budget, err |-> FALSE]

ApplyAll(G, d) == DiffApply(StartApply(G, 0 - 1), d)

-----------------------------------------------------------------------------
(* The operations *)

EmptyDiff == [team_diffs |-> <<>>, repo_diffs |-> <<>>]

\* create_diff: SyncGitHub::new, then diff_all, with every read succeeding
\* (failAt = 0) or with read number failAt failing: `?` returns the error and
\* no Diff.  A panic returns nothing.
CreateDiff ==
    /\ pc = "idle"
    /\ run < MaxRuns
    /\ run' = run + 1
    /\ \E failAt \in IF read_errors THEN 0..Len(ReadCalls(gh)) ELSE {0} :
        IF failAt > 0
        THEN /\ reads' = [i \in 1..failAt |->
                            [ReadCalls(gh)[i] EXCEPT !.ok = (i < failAt)]]
             /\ pc' = "errored"
             /\ diff' = EmptyDiff
        ELSE /\ reads' = ReadCalls(gh)
             /\ IF DiffPanics
                THEN pc' = "panicked" /\ diff' = EmptyDiff
                ELSE pc' = "diffed" /\ diff' = diff_all(gh)
    /\ UNCHANGED <<teams, repos, gh, usernames, owners, uses_pat, hash_order,
                   read_errors, writes, last, aborted>>

\* Diff::apply with every write succeeding (failAt = number of writes) or with
\* the write after the first failAt ones failing.
Apply ==
    /\ pc = "diffed"
    /\ \E failAt \in 0..Len(ApplyAll(gh, diff).writes) :
        LET n == Len(ApplyAll(gh, diff).writes)
            W == DiffApply(StartApply(gh, IF failAt = n THEN 0 - 1 ELSE failAt), diff)
        IN  /\ gh' = W.gh
            /\ writes' = W.writes
            /\ last' = IF W.err THEN "failed" ELSE "ok"
            /\ aborted' = (aborted \/ last = "failed")
    /\ pc' = "idle"
    /\ UNCHANGED <<teams, repos, usernames, owners, uses_pat, hash_order,
                   read_errors, diff, reads, run>>

Next == CreateDiff \/ Apply

-----------------------------------------------------------------------------
(* The states a run starts from *)

\* Sequences of at most n elements of S, without repetition
SeqsUpTo(S, n) ==
    {s \in UNION {[1..k -> S] : k \in 0..n} :
        \A i, j \in 1..Len(s) : i # j => s[i] # s[j]}

Orgs == {"rust-lang", "rust-lang-nursery", "other"}

NoOwners == [o \in Orgs |-> {}]

EmptyGh == [teams |-> EmptyMap, repos |-> EmptyMap, next_id |-> 100]

GhTeam(name, description, privacy, members, invites) ==
    [name |-> name, slug |-> SlugOf(name), description |-> description,
     privacy |-> privacy, members |-> members, invites |-> invites]

DefaultGhTeam(name) ==
    GhTeam(name, Some(DEFAULT_DESCRIPTION), DEFAULT_PRIVACY, EmptyMap, {})

GhRepo(org, name, node_id, settings, allow_auto_merge, rteams, collaborators, protections) ==
    [org |-> org, name |-> name, node_id |-> node_id,
     description |-> settings.description, homepage |-> settings.homepage,
     archived |-> settings.archived, allow_auto_merge |-> allow_auto_merge,
     teams |-> rteams, collaborators |-> collaborators,
     protections |-> protections]

DeclRepo(org, name, settings, rteams, members, bots, branch_protections) ==
    [org |-> org, name |-> name,
     description |-> settings.description, homepage |-> settings.homepage,
     archived |-> settings.archived,
     auto_merge_enabled |-> settings.auto_merge_enabled,
     teams |-> rteams, members |-> members, bots |-> bots,
     branch_protections |-> branch_protections]

PlainSettings == Settings("d", None, FALSE, FALSE)

InitRun ==
    /\ diff = EmptyDiff
    /\ writes = <<>>
    /\ pc = "idle"
    /\ run = 0
    /\ last = "none"
    /\ aborted = FALSE
    /\ reads = <<>>
    /\ usernames = Users
    /\ hash_order \in {"asc", "desc"}

\* Teams: which provider teams are deleted
GateDeclTeams == {[org |-> o, name |-> "core", members |-> <<>>] : o \in Orgs}

GateGhKeys == Orgs \X {"core", "bors", "WG Ghost"}

InitGate ==
    /\ InitRun
    /\ read_errors = FALSE
    /\ teams \in SeqsUpTo(GateDeclTeams, MaxTeams)
    /\ repos = <<>>
    /\ \E ks \in {s \in SUBSET GateGhKeys : Cardinality(s) <= MaxTeams} :
        gh = [EmptyGh EXCEPT !.teams = [k \in ks |-> DefaultGhTeam(k[2])]]
    /\ owners = NoOwners
    /\ uses_pat = TRUE

\* Teams: the members of one team
MemberLists == SeqsUpTo(DOMAIN Users, 2)

Roles == {"Member", "Maintainer"}

GhMemberMaps ==
    UNION {[ids -> Roles] : ids \in SUBSET DOMAIN Users}

InitMembers ==
    /\ InitRun
    /\ read_errors = FALSE
    /\ \E ms \in MemberLists :
        teams = <<[org |-> "rust-lang", name |-> "core", members |-> ms]>>
    /\ repos = <<>>
    /\ \E exists \in BOOLEAN,
          description \in {None, Some(DEFAULT_DESCRIPTION), Some("old")},
          privacy \in {"Closed", "Secret"},
          roles \in GhMemberMaps,
          invites \in SUBSET {Users[u] : u \in DOMAIN Users} :
        /\ \A u \in DOMAIN roles : Users[u] \notin invites
        /\ ~exists => /\ description = None /\ privacy = "Closed"
                      /\ roles = EmptyMap /\ invites = {}
        /\ gh = [EmptyGh EXCEPT !.teams =
                   IF exists
                   THEN (<<"rust-lang", "core">> :>
                            GhTeam("core", description, privacy,
                                   [u \in DOMAIN roles |->
                                       [username |-> Users[u], role |-> roles[u]]],
                                   invites))
                   ELSE EmptyMap]
    /\ owners \in {NoOwners, [NoOwners EXCEPT !["rust-lang"] = {42}]}
    /\ uses_pat = TRUE

\* Repos: the permissions of one repo
TeamPerm(name, permission) == [name |-> name, permission |-> permission]

PermDeclTeams ==
    {<<>>, <<TeamPerm("core", "write")>>, <<TeamPerm("security", "write")>>,
     <<TeamPerm("security", "triage"), TeamPerm("core", "maintain")>>}

PermDeclMembers == {<<>>, <<TeamPerm("alice", "write")>>}

PermDeclBots == {<<>>, <<"Bors">>, <<"Renovate", "Rustbot">>}

\* name -> permission maps: for each name one of its choices, or absence
PermMaps(choices) ==
    {m \in UNION {[ns -> UNION {choices[n] : n \in DOMAIN choices}]
                  : ns \in SUBSET DOMAIN choices} :
        \A n \in DOMAIN m : m[n] \in choices[n]}

PermGhTeams ==
    PermMaps(("core" :> {"Write", "Admin"}) @@ ("security" :> {"Triage", "Admin"})
             @@ ("bors" :> {"Write"}))

PermGhCollaborators ==
    PermMaps(("alice" :> {"Write", "Admin"}) @@ ("bors" :> {"Write", "Admin"}))

InitPerm ==
    /\ InitRun
    /\ read_errors = FALSE
    /\ teams = <<>>
    /\ \E org \in {"rust-lang", "other"}, ts \in PermDeclTeams,
          ms \in PermDeclMembers, bs \in PermDeclBots,
          gts \in PermGhTeams, gcs \in PermGhCollaborators :
        /\ repos = <<DeclRepo(org, "repo", PlainSettings, ts, ms, bs, <<>>)>>
        /\ gh = [EmptyGh EXCEPT !.repos =
                   (<<org, "repo">> :>
                       GhRepo(org, "repo", 1, PlainSettings, Some(FALSE), gts, gcs,
                              EmptyMap))]
    /\ owners = NoOwners
    /\ uses_pat = TRUE

\* Repos: the branch protections of one repo
DeclProtection(pattern, dismiss, mode, allowed_merge_teams, merge_bots) ==
    [pattern |-> pattern, dismiss_stale_review |-> dismiss, mode |-> mode,
     allowed_merge_teams |-> allowed_merge_teams, merge_bots |-> merge_bots]

PrRequired(required_approvals, ci_checks) ==
    [tag |-> "PrRequired", required_approvals |-> required_approvals,
     ci_checks |-> ci_checks]

DeclModes ==
    {PR_NOT_REQUIRED}
    \cup {PrRequired(n, cs) : n \in 0..MaxApprovals,
                              cs \in {<<>>, <<"b", "a">>, <<"a", "b">>}}

DeclProtections ==
    {DeclProtection("main", d, m, ts, bs) :
        d \in BOOLEAN, m \in DeclModes, ts \in {<<>>, <<"infra">>},
        bs \in {<<>>, <<"Homu">>}}

AppActor == [tag |-> "App", id |-> "x"]

\* The observed protections: canonical ones, with an App actor nowhere, first
\* or last among the push allowances
ObservedProtections(expected_repo, pattern) ==
    LET canonical ==
            {construct_branch_protection(
                 expected_repo, DeclProtection(pattern, TRUE, m, ts, <<>>)) :
                m \in {PR_NOT_REQUIRED, PrRequired(1, <<"b", "a">>)},
                ts \in {<<>>, <<"infra">>}}
    IN  UNION {{c,
                [c EXCEPT !.push_allowances = <<AppActor>> \o @],
                [c EXCEPT !.push_allowances = @ \o <<AppActor>>]} : c \in canonical}

OptionOf(S) == {None} \cup {Some(x) : x \in S}

InitProtections ==
    /\ InitRun
    /\ read_errors = FALSE
    /\ teams = <<>>
    /\ \E name \in {"rust", "repo"},
          bps \in {<<>>} \cup {<<d>> : d \in DeclProtections},
          has_stable \in BOOLEAN :
        LET expected_repo ==
                DeclRepo("rust-lang", name, PlainSettings, <<>>, <<>>, <<>>, bps)
            stable == CHOOSE x \in ObservedProtections(expected_repo, "stable") :
                          x.push_allowances = <<>> /\ ~x.requires_approving_reviews
        IN  /\ repos = <<expected_repo>>
            /\ \E main \in OptionOf(ObservedProtections(expected_repo, "main")) :
                gh = [EmptyGh EXCEPT !.repos =
                        (<<"rust-lang", name>> :>
                            GhRepo("rust-lang", name, 1, PlainSettings, Some(FALSE),
                                   EmptyMap, EmptyMap,
                                   [p \in (IF IsSome(main) THEN {"main"} ELSE {})
                                          \cup (IF has_stable THEN {"stable"} ELSE {})
                                    |-> IF p = "main"
                                        THEN [id |-> 11, bp |-> Unwrap(main)]
                                        ELSE [id |-> 12, bp |-> stable]]))]
            /\ uses_pat \in BOOLEAN
    /\ owners = NoOwners

\* Repos: the settings of one repo, which may not exist yet
SimpleProtection == DeclProtection("main", FALSE, PrRequired(1, <<"a">>), <<>>, <<>>)

InitSettings ==
    /\ InitRun
    /\ read_errors = FALSE
    /\ teams = <<>>
    /\ \E archived \in BOOLEAN, description \in {"d", "e"},
          homepage \in {None, Some("h")}, auto_merge_enabled \in BOOLEAN,
          ts \in {<<>>, <<TeamPerm("core", "write")>>},
          bps \in {<<>>, <<SimpleProtection>>} :
        repos = <<DeclRepo("other", "repo",
                           Settings(description, homepage, archived, auto_merge_enabled),
                           ts, <<>>, <<>>, bps)>>
    /\ \E exists \in BOOLEAN, archived \in BOOLEAN,
          allow_auto_merge \in {None, Some(TRUE), Some(FALSE)} :
        /\ ~exists => ~archived /\ allow_auto_merge = None
        /\ gh = [EmptyGh EXCEPT !.repos =
                   IF exists
                   THEN (<<"other", "repo">> :>
                            GhRepo("other", "repo", 1,
                                   Settings("d", None, archived, FALSE),
                                   allow_auto_merge, EmptyMap, EmptyMap, EmptyMap))
                   ELSE EmptyMap]
    /\ owners = NoOwners
    /\ uses_pat = TRUE

\* Two teams and two repos
InitMixed ==
    /\ InitRun
    /\ read_errors = TRUE
    /\ teams = <<[org |-> "rust-lang", name |-> "core", members |-> <<42, 7>>],
                 [org |-> "rust-lang", name |-> "infra", members |-> <<>>]>>
    /\ \E archived \in BOOLEAN :
        repos = <<DeclRepo("rust-lang", "repo", PlainSettings,
                           <<TeamPerm("core", "write")>>, <<>>, <<>>,
                           <<SimpleProtection>>),
                  DeclRepo("rust-lang", "book",
                           Settings("d", None, archived, FALSE),
                           <<TeamPerm("infra", "admin")>>, <<>>, <<>>, <<>>)>>
    /\ \E tks \in SUBSET {<<"rust-lang", "core">>, <<"rust-lang", "infra">>,
                          <<"rust-lang", "WG Ghost">>},
          rks \in SUBSET {<<"rust-lang", "repo">>, <<"rust-lang", "book">>} :
        gh = [EmptyGh EXCEPT
                !.teams = [k \in tks |-> DefaultGhTeam(k[2])],
                !.repos = [k \in rks |->
                    GhRepo(k[1], k[2], IF k[2] = "repo" THEN 1 ELSE 2,
                           Settings("old", None, k[2] = "book", FALSE), None,
                           EmptyMap, EmptyMap, EmptyMap)]]
    /\ owners \in {NoOwners, [NoOwners EXCEPT !["rust-lang"] = {42}]}
    /\ uses_pat = TRUE

\* Diff values as a caller of Diff::apply may build them
ApplyPermissionDiffs ==
    {<<>>,
     <<[collaborator |-> UserCollaborator("alice"),
        diff |-> [tag |-> "Create", new |-> "Write"]]>>,
     <<[collaborator |-> TeamCollaborator("core"),
        diff |-> [tag |-> "Update", old |-> "Write", new |-> "Admin"]],
       [collaborator |-> UserCollaborator("bob"),
        diff |-> [tag |-> "Delete", old |-> "Write"]]>>}

ApplyRepo == DeclRepo("rust-lang", "repo", PlainSettings, <<>>, <<>>, <<>>, <<>>)

ProtectionA == construct_branch_protection(ApplyRepo, SimpleProtection)

ProtectionB ==
    construct_branch_protection(
        ApplyRepo, DeclProtection("main", TRUE, PR_NOT_REQUIRED, <<"infra">>, <<>>))

ApplyProtectionDiffs ==
    {<<>>,
     <<[pattern |-> "next", operation |-> [tag |-> "Create", new |-> ProtectionA]]>>,
     <<[pattern |-> "main",
        operation |-> [tag |-> "Update", id |-> 11, old |-> ProtectionB,
                       new |-> ProtectionA]],
       [pattern |-> "stable", operation |-> [tag |-> "Delete", id |-> 12]]>>}

ApplyUpdates ==
    {[kind |-> "Update", org |-> "rust-lang", name |-> "repo", repo_node_id |-> 1,
      settings_diff |-> <<Settings("d", None, a1, FALSE), Settings(d2, None, a2, FALSE)>>,
      permission_diffs |-> ps, branch_protection_diffs |-> bs] :
        a1 \in BOOLEAN, a2 \in BOOLEAN, d2 \in {"d", "e"},
        ps \in ApplyPermissionDiffs, bs \in ApplyProtectionDiffs}

ApplyCreates ==
    {[kind |-> "Create", org |-> "rust-lang", name |-> "book",
      settings |-> PlainSettings, permissions |-> ps,
      branch_protections |-> IF ps = <<>> THEN <<>> ELSE <<<<"main", ProtectionA>>>>] :
        ps \in ApplyPermissionDiffs}

ApplyTeamCreate ==
    [kind |-> "Create", org |-> "rust-lang", name |-> "core",
     description |-> DEFAULT_DESCRIPTION, privacy |-> DEFAULT_PRIVACY,
     members |-> <<<<"alice", "Maintainer">>>>]

ApplyTeamEdit ==
    [kind |-> "Edit", org |-> "rust-lang", name |-> "infra", name_diff |-> None,
     description_diff |-> Some(<<"old", DEFAULT_DESCRIPTION>>), privacy_diff |-> None,
     member_diffs |-> <<<<"alice", [tag |-> "Noop"]>>, <<"bob", [tag |-> "Delete"]>>>>]

ApplyTeamDelete ==
    [kind |-> "Delete", org |-> "rust-lang", name |-> "WG Ghost", slug |-> "wg-ghost"]

ApplyGh ==
    [EmptyGh EXCEPT
        !.teams = (<<"rust-lang", "infra">> :>
                      GhTeam("infra", Some("old"), DEFAULT_PRIVACY,
                             (7 :> [username |-> "bob", role |-> "Member"])
                             @@ (42 :> [username |-> "alice", role |-> "Member"]), {}))
                  @@ (<<"rust-lang", "WG Ghost">> :> DefaultGhTeam("WG Ghost")),
        !.repos = (<<"rust-lang", "repo">> :>
                      GhRepo("rust-lang", "repo", 1, PlainSettings, Some(FALSE),
                             ("core" :> "Write"), ("bob" :> "Write"),
                             ("main" :> [id |-> 11, bp |-> ProtectionB])
                             @@ ("stable" :> [id |-> 12, bp |-> ProtectionB])))]

InitApply ==
    /\ teams = <<>>
    /\ repos = <<>>
    /\ usernames = Users
    /\ owners = NoOwners
    /\ uses_pat = TRUE
    /\ hash_order = "asc"
    /\ read_errors = FALSE
    /\ writes = <<>>
    /\ pc = "diffed"
    /\ run = 0
    /\ last = "none"
    /\ aborted = FALSE
    /\ reads = <<>>
    /\ \E archived \in BOOLEAN :
        gh = [ApplyGh EXCEPT !.repos[<<"rust-lang", "repo">>].archived = archived]
    /\ \E tds \in {<<>>, <<ApplyTeamCreate>>, <<ApplyTeamEdit>>,
                   <<ApplyTeamCreate, ApplyTeamEdit>>,
                   <<ApplyTeamDelete, ApplyTeamCreate>>},
          rds \in {<<>>} \cup {<<u>> : u \in ApplyUpdates}
                  \cup {<<c>> : c \in ApplyCreates}
                  \cup {<<u, c>> : u \in ApplyUpdates, c \in ApplyCreates}
                  \cup {<<c, u>> : c \in ApplyCreates, u \in ApplyUpdates} :
        diff = [team_diffs |-> tds, repo_diffs |-> rds]

InitTeams == InitGate \/ InitMembers

\* Repos: a declared count of required approvals at and beyond the u8 range,
\* on a repo followed by a second declared repo
OversizedCounts == {0, MaxApprovals, U8Max, U8Max + 1}

InitOversized ==
    /\ InitRun
    /\ read_errors = FALSE
    /\ teams = <<>>
    /\ \E name \in {"rust", "repo"}, n \in OversizedCounts,
          cs \in {<<>>, <<"a">>}, bs \in {<<>>, <<"Homu">>},
          exists \in BOOLEAN, protected \in BOOLEAN :
        LET declared == DeclProtection("main", FALSE, PrRequired(n, cs), <<>>, bs)
            expected_repo ==
                DeclRepo("rust-lang", name, PlainSettings, <<>>, <<>>, <<>>, <<declared>>)
            observed ==
                construct_branch_protection(
                    expected_repo, DeclProtection("main", FALSE, PrRequired(1, cs), <<>>, bs))
        IN  /\ repos = <<expected_repo,
                         DeclRepo("rust-lang", "book", PlainSettings, <<>>, <<>>, <<>>, <<>>)>>
            /\ protected => exists
            /\ gh = [EmptyGh EXCEPT !.repos =
                       IF exists
                       THEN (<<"rust-lang", name>> :>
                                GhRepo("rust-lang", name, 1, PlainSettings, Some(FALSE),
                                       EmptyMap, EmptyMap,
                                       IF protected
                                       THEN ("main" :> [id |-> 11, bp |-> observed])
                                       ELSE EmptyMap))
                       ELSE EmptyMap]
    /\ uses_pat \in BOOLEAN
    /\ owners = NoOwners

\* Teams: usernames() answers for some of the declared members only
KnownUsers == {[u \in ids |-> Users[u]] : ids \in SUBSET DOMAIN Users}

InitUnknownUser ==
    /\ diff = EmptyDiff
    /\ writes = <<>>
    /\ pc = "idle"
    /\ run = 0
    /\ last = "none"
    /\ aborted = FALSE
    /\ reads = <<>>
    /\ hash_order \in {"asc", "desc"}
    /\ read_errors = FALSE
    /\ usernames \in KnownUsers
    /\ \E ms \in MemberLists :
        teams = <<[org |-> "rust-lang", name |-> "core", members |-> ms],
                 [org |-> "rust-lang", name |-> "infra", members |-> <<>>]>>
    /\ repos = <<>>
    /\ \E exists \in BOOLEAN, roles \in GhMemberMaps :
        /\ ~exists => roles = EmptyMap
        /\ gh = [EmptyGh EXCEPT !.teams =
                   IF exists
                   THEN (<<"rust-lang", "core">> :>
                            GhTeam("core", Some(DEFAULT_DESCRIPTION), DEFAULT_PRIVACY,
                                   [u \in DOMAIN roles |->
                                       [username |-> Users[u], role |-> roles[u]]],
                                   {}))
                   ELSE EmptyMap]
    /\ owners = NoOwners
    /\ uses_pat = TRUE

Init == InitGate \/ InitMembers \/ InitPerm \/ InitProtections \/ InitSettings \/ InitMixed \/ InitOversized \/ InitUnknownUser

\* The declared approval counts around the u8 range
SpecOversized == InitOversized /\ [][Next]_vars

\* The username cache with members missing
SpecUnknownUser == InitUnknownUser /\ [][Next]_vars

\* Every family of starting states
Spec == Init /\ [][Next]_vars

\* Two teams and two repos
SpecMixed == InitMixed /\ [][Next]_vars

\* The settings of one repo
SpecSettings == InitSettings /\ [][Next]_vars

\* The teams alone
SpecTeams == InitTeams /\ [][Next]_vars

\* Repos only: protections of a repo that exists, settings of one that may not
InitRepos == InitProtections \/ InitSettings

SpecRepos == InitRepos /\ [][Next]_vars

\* The permissions of one repo
SpecPerm == InitPerm /\ [][Next]_vars

\* Diff::apply on Diff values of every shape
SpecApply == InitApply /\ [][Next]_vars

\* The branch protections of one repo
SpecProtections == InitProtections /\ [][Next]_vars

-----------------------------------------------------------------------------
(* What the claims speak of *)

\* Diff::apply has returned: diff is the Diff applied and writes its writes.
Applied == pc = "idle" /\ last # "none"

\* create_diff has returned: diff is the Diff of the provider state gh.
Diffed == pc = "diffed"

\* create_diff has returned after a Diff::apply in which no write failed.
Rediffed == pc = "diffed" /\ last = "ok"

TeamOps ==
    {"create_team", "edit_team", "delete_team", "set_team_membership",
     "remove_team_membership"}

PermissionOps ==
    {"update_team_repo_permissions", "update_user_repo_permissions",
     "remove_team_from_repo", "remove_collaborator_from_repo"}

ProtectionOps == {"upsert_branch_protection", "delete_branch_protection"}

RepoOps == {"create_repo", "edit_repo"} \cup PermissionOps \cup ProtectionOps

\* The writes of one entry of the Diff, in the order issued
EntryWrites(entry) == SelectSeq(writes, LAMBDA w : w.entry = entry)

RepoEntries == {j \in 1..Len(diff.repo_diffs) : TRUE}

Updates == {j \in 1..Len(diff.repo_diffs) : diff.repo_diffs[j].kind = "Update"}

\* Diff::apply went past entry j of repo_diffs without a failure.
RepoEntryCompleted(j) ==
    \/ last = "ok"
    \/ \E k \in 1..Len(writes) : writes[k].entry[1] = "repo" /\ writes[k].entry[2] > j

IsEditRepoTo(w, u) ==
    /\ w.op = "edit_repo"
    /\ w.args = [org |-> u.org, name |-> u.name, settings |-> u.settings_diff[2]]

-----------------------------------------------------------------------------
(* C1: idempotence *)

\* A repo_diffs entry that only archives a repo: an Update from settings that
\* differ from the declared ones in archived = false alone, with no permission
\* and no branch-protection diff.
ArchivesOnly(d) ==
    /\ d.kind = "Update"
    /\ d.settings_diff[2].archived
    /\ d.settings_diff[1] = [d.settings_diff[2] EXCEPT !.archived = FALSE]
    /\ d.permission_diffs = <<>>
    /\ d.branch_protection_diffs = <<>>

\* The preceding Diff::apply created the repo.
CreatedByLastApply(org, name) ==
    \E k \in 1..Len(writes) :
        /\ writes[k].op = "create_repo"
        /\ writes[k].args.org = org
        /\ writes[k].args.name = name

\* The declared repos that the preceding apply created and that are declared
\* archived, in declaration order
CreatedArchived ==
    SelectSeq(repos, LAMBDA r : r.archived /\ CreatedByLastApply(r.org, r.name))

\* C1 as claimed: the Diff recomputed after an apply whose writes all
\* succeeded is empty.
C1_RecomputedDiffIsEmpty == Rediffed => is_empty(diff)

\* C1 amended: the Diff recomputed after an apply whose writes all succeeded
\* has no team diff, and its repo diffs are exactly one archive-only Update per
\* declared-archived repo that the apply created (create never archives); it
\* is empty when the apply created no such repo.
C1_RecomputedDiffOnlyArchivesCreated ==
    Rediffed =>
        /\ diff.team_diffs = <<>>
        /\ Len(diff.repo_diffs) = Len(CreatedArchived)
        /\ \A j \in 1..Len(diff.repo_diffs) :
            /\ ArchivesOnly(diff.repo_diffs[j])
            /\ diff.repo_diffs[j].org = CreatedArchived[j].org
            /\ diff.repo_diffs[j].name = CreatedArchived[j].name

\* A Diff with team writes and repo writes was applied and the recomputed Diff
\* is empty.
C1_Witness ==
    /\ Rediffed
    /\ is_empty(diff)
    /\ \E k \in 1..Len(writes) : writes[k].op \in TeamOps
    /\ \E k \in 1..Len(writes) : writes[k].op \in PermissionOps
    /\ \E k \in 1..Len(writes) : writes[k].op \in ProtectionOps

-----------------------------------------------------------------------------
(* C2: archive freeze *)

Frozen(u) == u.settings_diff[1].archived /\ u.settings_diff[2].archived

\* The Update takes the repo out of the archive.
Unarchives(u) == u.settings_diff[1].archived /\ ~u.settings_diff[2].archived

\* C2: applying a repo Update whose old and new settings are both archived
\* issues no write (none succeeding, none failing), whatever it carries.
C2_ArchiveFreeze ==
    Applied =>
        \A j \in Updates :
            Frozen(diff.repo_diffs[j]) => EntryWrites(<<"repo", j>>) = <<>>

\* A frozen Update carrying a settings change, permission diffs and
\* branch-protection diffs was applied, a later entry was written.
C2_Witness ==
    /\ Applied
    /\ last = "ok"
    /\ \E j \in Updates :
        /\ Frozen(diff.repo_diffs[j])
        /\ diff.repo_diffs[j].settings_diff[1] # diff.repo_diffs[j].settings_diff[2]
        /\ diff.repo_diffs[j].permission_diffs # <<>>
        /\ diff.repo_diffs[j].branch_protection_diffs # <<>>
        /\ EntryWrites(<<"repo", j + 1>>) # <<>>

-----------------------------------------------------------------------------
(* C3: unarchive first *)

\* C3: for an Update from archived to not archived, the first write of the
\* entry is edit_repo with the new settings, every other write of the entry
\* is a permission or branch-protection write (so all of them come after it),
\* and the entry is not passed without that edit_repo.
C3_UnarchiveFirst ==
    Applied =>
        \A j \in Updates :
            LET u == diff.repo_diffs[j]
                ws == EntryWrites(<<"repo", j>>)
            IN  Unarchives(u) =>
                    /\ ws # <<>> => IsEditRepoTo(ws[1], u)
                    /\ \A k \in 2..Len(ws) : ws[k].op \in PermissionOps \cup ProtectionOps
                    /\ RepoEntryCompleted(j) => ws # <<>>

\* An unarchiving Update with permission and branch-protection diffs was
\* applied in full.
C3_Witness ==
    /\ Applied
    /\ last = "ok"
    /\ \E j \in Updates :
        /\ Unarchives(diff.repo_diffs[j])
        /\ \E k \in 1..Len(writes) :
            writes[k].entry = <<"repo", j>> /\ writes[k].op \in PermissionOps
        /\ \E k \in 1..Len(writes) :
            writes[k].entry = <<"repo", j>> /\ writes[k].op \in ProtectionOps

-----------------------------------------------------------------------------
(* C4: archive last *)

\* edit_repo with the new settings is the last write of entry j, and the only
\* edit_repo of the entry.
EditRepoIsLast(j) ==
    LET u == diff.repo_diffs[j]
        ws == EntryWrites(<<"repo", j>>)
    IN  /\ ws # <<>>
        /\ IsEditRepoTo(ws[Len(ws)], u)
        /\ \A k \in 1..(Len(ws) - 1) : ws[k].op \in PermissionOps \cup ProtectionOps

\* An edit_repo of entry j, if any was issued, is the last write of the entry.
EditRepoOnlyLast(j) ==
    LET ws == EntryWrites(<<"repo", j>>)
    IN  \A k \in 1..Len(ws) : ws[k].op = "edit_repo" => k = Len(ws)

-----------------------------------------------------------------------------
(* C5: teams before repos, entries in list order *)

\* The place of an entry in the Diff: team_diffs first, then repo_diffs.
EntryPlace(entry) ==
    IF entry[1] = "team" THEN entry[2] ELSE Len(diff.team_diffs) + entry[2]

\* The write is one of the entry's kind to the entry's target.
WriteOfItsEntry(w) ==
    IF w.entry[1] = "team"
    THEN /\ w.entry[2] \in 1..Len(diff.team_diffs)
         /\ w.op \in TeamOps
         /\ w.args.org = diff.team_diffs[w.entry[2]].org
    ELSE /\ w.entry[2] \in 1..Len(diff.repo_diffs)
         /\ w.op \in RepoOps
         /\ w.args.org = diff.repo_diffs[w.entry[2]].org

\* C5: the writes are issued entry by entry: every write of a team diff before
\* the first write of a repo diff, the entries of each list in list order, and
\* no write of an entry after a write of a later entry.
C5_TeamsThenReposInOrder ==
    Applied =>
        /\ \A k \in 1..Len(writes) : WriteOfItsEntry(writes[k])
        /\ \A a, b \in 1..Len(writes) :
            a < b => EntryPlace(writes[a].entry) <= EntryPlace(writes[b].entry)

\* Two team diffs and two repo diffs were applied, each with writes.
C5_Witness ==
    /\ Applied
    /\ last = "ok"
    /\ \A e \in {<<"team", 1>>, <<"team", 2>>, <<"repo", 1>>, <<"repo", 2>>} :
        Len(EntryWrites(e)) >= 2

-----------------------------------------------------------------------------
(* C6: permissions before branch protections *)

\* C6: within one repo entry (a Create or an Update) no permission write is
\* issued after a branch-protection write.
C6_PermissionsBeforeProtections ==
    Applied =>
        \A a, b \in 1..Len(writes) :
            (/\ writes[a].entry = writes[b].entry
             /\ writes[a].op \in ProtectionOps
             /\ writes[b].op \in PermissionOps)
                => b < a

\* A repo Create and a repo Update were applied, each with permission writes
\* and branch-protection writes.
C6_Witness ==
    /\ Applied
    /\ \A kind \in {"Create", "Update"} :
        \E j \in RepoEntries :
            /\ diff.repo_diffs[j].kind = kind
            /\ \E k \in 1..Len(writes) :
                writes[k].entry = <<"repo", j>> /\ writes[k].op \in PermissionOps
            /\ \E k \in 1..Len(writes) :
                writes[k].entry = <<"repo", j>> /\ writes[k].op \in ProtectionOps

-----------------------------------------------------------------------------
(* C7: the team-delete gate *)

\* The provider teams that the declaration does not name, as <<org, name>>
Orphans ==
    {k \in DOMAIN gh.teams :
        ~\E i \in 1..Len(teams) : teams[i].org = k[1] /\ teams[i].name = k[2]}

\* The Diff holds a Delete of the provider team k.
EmitsDelete(k) ==
    \E i \in 1..Len(diff.team_diffs) :
        /\ diff.team_diffs[i].kind = "Delete"
        /\ diff.team_diffs[i].org = k[1]
        /\ diff.team_diffs[i].name = k[2]

\* C7 as claimed: a provider team absent from the declaration is emitted as a
\* Delete iff its org is rust-lang or rust-lang-nursery and its name is not a
\* reserved bot-team name.
C7_DeleteIffAllowlisted ==
    Diffed =>
        \A k \in Orphans :
            EmitsDelete(k) <=> (k[1] \in DeleteOrgs /\ k[2] \notin BOTS_TEAMS)

\* C7 amended: a provider team absent from the declaration is emitted as a
\* Delete iff its org is rust-lang or rust-lang-nursery, its name is not a
\* reserved bot-team name, and the declaration has at least one team in that
\* org (the teams of an org are fetched on the first declared team of the org).
C7_DeleteGate ==
    Diffed =>
        \A k \in Orphans :
            EmitsDelete(k) <=>
                /\ k[1] \in DeleteOrgs
                /\ k[2] \notin BOTS_TEAMS
                /\ \E i \in 1..Len(teams) : teams[i].org = k[1]

\* One orphan is deleted, and one in an org outside the allowlist that has a
\* declared team is kept.
C7_Witness ==
    /\ Diffed
    /\ \E k \in Orphans : EmitsDelete(k)
    /\ \E k \in Orphans :
        /\ k[1] \notin DeleteOrgs
        /\ k[2] \notin BOTS_TEAMS
        /\ \E i \in 1..Len(teams) : teams[i].org = k[1]
        /\ ~EmitsDelete(k)

-----------------------------------------------------------------------------
(* C8: the security team *)

\* The permission diffs computed for the declared repo r, if any is in the Diff
PermissionDiffsOf(r) ==
    UNION {{diff.repo_diffs[j].permission_diffs[k] :
                k \in 1..Len(diff.repo_diffs[j].permission_diffs)} :
           j \in {x \in Updates : /\ diff.repo_diffs[x].org = r.org
                                  /\ diff.repo_diffs[x].name = r.name}}

DeclaresTeam(r, name) == \E i \in 1..Len(r.teams) : r.teams[i].name = name

\* C8: for a declared repo of org rust-lang, an observed repo team security
\* that the repo does not declare is in no Delete permission diff.
C8_SecurityTeamKept ==
    Diffed =>
        \A i \in 1..Len(repos) :
            (/\ repos[i].org = "rust-lang"
             /\ <<repos[i].org, repos[i].name>> \in DOMAIN gh.repos
             /\ "security" \in DOMAIN gh.repos[<<repos[i].org, repos[i].name>>].teams
             /\ ~DeclaresTeam(repos[i], "security"))
                => ~\E p \in PermissionDiffsOf(repos[i]) :
                        /\ p.collaborator = TeamCollaborator("security")
                        /\ p.diff.tag = "Delete"

\* A rust-lang repo is observed with an undeclared security team and another
\* undeclared team: the other one is deleted, security is in no diff.
C8_Witness ==
    /\ Diffed
    /\ \E i \in 1..Len(repos) :
        /\ repos[i].org = "rust-lang"
        /\ <<repos[i].org, repos[i].name>> \in DOMAIN gh.repos
        /\ "security" \in DOMAIN gh.repos[<<repos[i].org, repos[i].name>>].teams
        /\ ~DeclaresTeam(repos[i], "security")
        /\ \E p \in PermissionDiffsOf(repos[i]) :
            /\ p.collaborator = TeamCollaborator("core")
            /\ p.diff.tag = "Delete"
        /\ ~\E p \in PermissionDiffsOf(repos[i]) :
            p.collaborator = TeamCollaborator("security")

-----------------------------------------------------------------------------
(* C9: App actors among the push allowances *)

NonApps(push_allowances) == SelectSeq(push_allowances, LAMBDA a : ~IsApp(a))

\* The observed protection holds App actors and, those left out, is the
\* projection of the declared one.
DiffersOnlyInApps(observed, projected) ==
    /\ AppsOf(observed.push_allowances) # <<>>
    /\ [observed EXCEPT !.push_allowances = NonApps(@)] = projected

\* The Diff holds a branch-protection diff for the pattern of the repo.
EmitsProtectionDiff(org, name, pattern) ==
    \E j \in Updates :
        /\ diff.repo_diffs[j].org = org
        /\ diff.repo_diffs[j].name = name
        /\ \E k \in 1..Len(diff.repo_diffs[j].branch_protection_diffs) :
            diff.repo_diffs[j].branch_protection_diffs[k].pattern = pattern

\* C9: when the observed protection of a declared pattern holds App actors, at
\* any place among its push allowances, and nothing else differs from the
\* declaration, no diff is emitted for the pattern.
C9_AppPreservation ==
    Diffed =>
        \A i \in 1..Len(repos) :
            \A k \in 1..Len(repos[i].branch_protections) :
                LET r == repos[i]
                    bp == r.branch_protections[k]
                IN  (/\ <<r.org, r.name>> \in DOMAIN gh.repos
                     /\ bp.pattern \in DOMAIN gh.repos[<<r.org, r.name>>].protections
                     /\ DiffersOnlyInApps(
                            gh.repos[<<r.org, r.name>>].protections[bp.pattern].bp,
                            construct_branch_protection(r, bp)))
                        => ~EmitsProtectionDiff(r.org, r.name, bp.pattern)

-----------------------------------------------------------------------------
(* C10: the approval count and the mode *)

\* The declared protections with their projections, as <<declared, projected>>
Projected ==
    UNION {{<<repos[i].branch_protections[k],
              construct_branch_protection(repos[i], repos[i].branch_protections[k])>> :
                k \in 1..Len(repos[i].branch_protections)} :
           i \in 1..Len(repos)}

\* C10 as claimed: the projected count is 0 iff the effective mode is
\* PrNotRequired, iff requires_approving_reviews is false.
C10_CountZeroIffPrNotRequired ==
    Diffed =>
        \A dp \in Projected :
            /\ dp[2].required_approving_review_count = 0
                   <=> EffectiveMode(dp[1]).tag = "PrNotRequired"
            /\ dp[2].required_approving_review_count = 0
                   <=> ~dp[2].requires_approving_reviews

\* C10 amended: requires_approving_reviews is false iff the effective mode is
\* PrNotRequired; then the count is 0; under PrRequired the count is the
\* declared required_approvals, which may be 0 too.
C10_CountFollowsMode ==
    Diffed =>
        \A dp \in Projected :
            /\ ~dp[2].requires_approving_reviews
                   <=> EffectiveMode(dp[1]).tag = "PrNotRequired"
            /\ EffectiveMode(dp[1]).tag = "PrNotRequired"
                   => dp[2].required_approving_review_count = 0
            /\ EffectiveMode(dp[1]).tag = "PrRequired"
                   => dp[2].required_approving_review_count
                          = dp[1].mode.required_approvals

\* A protection declared PrRequired with 0 approvals and no merge bot was
\* projected, and created with count 0 and requires_approving_reviews true.
C10_Witness ==
    /\ Diffed
    /\ \E dp \in Projected :
        /\ dp[1].merge_bots = <<>>
        /\ dp[1].mode.tag = "PrRequired"
        /\ dp[1].mode.required_approvals = 0
        /\ \E j \in Updates :
            \E k \in 1..Len(diff.repo_diffs[j].branch_protection_diffs) :
                /\ diff.repo_diffs[j].branch_protection_diffs[k].operation.tag = "Create"
                /\ diff.repo_diffs[j].branch_protection_diffs[k].operation.new = dp[2]

-----------------------------------------------------------------------------
(* C11: merge-bot coercion *)

\* C11: a declared protection with merge bots projects to
\* requires_approving_reviews = false, a count of 0 and no required status
\* check, whatever mode, approvals and ci_checks it declares.
C11_MergeBotCoercion ==
    Diffed =>
        \A dp \in Projected :
            dp[1].merge_bots # <<>> =>
                /\ ~dp[2].requires_approving_reviews
                /\ dp[2].required_approving_review_count = 0
                /\ dp[2].required_status_check_contexts = <<>>

\* A protection declared with a merge bot, PrRequired with 2 approvals and two
\* ci checks was projected, and created with the coerced values.
C11_Witness ==
    /\ Diffed
    /\ \E dp \in Projected :
        /\ dp[1].merge_bots # <<>>
        /\ dp[1].mode.tag = "PrRequired"
        /\ dp[1].mode.required_approvals = 2
        /\ Len(dp[1].mode.ci_checks) = 2
        /\ \E j \in Updates :
            \E k \in 1..Len(diff.repo_diffs[j].branch_protection_diffs) :
                /\ diff.repo_diffs[j].branch_protection_diffs[k].operation.tag = "Create"
                /\ diff.repo_diffs[j].branch_protection_diffs[k].operation.new = dp[2]
                /\ ~dp[2].requires_approving_reviews

-----------------------------------------------------------------------------
(* C12: sort-stable projection *)

\* The sequences that are s in another order
Reorderings(s) ==
    {[i \in 1..Len(s) |-> s[f[i]]] :
        f \in {g \in [1..Len(s) -> 1..Len(s)] :
                  \A i, j \in 1..Len(s) : i # j => g[i] # g[j]}}

\* The declared protection with its ci_checks replaced, when it has any
WithChecks(bp, cs) ==
    IF bp.mode.tag = "PrRequired" THEN [bp EXCEPT !.mode.ci_checks = cs] ELSE bp

ChecksOf(bp) == IF bp.mode.tag = "PrRequired" THEN bp.mode.ci_checks ELSE <<>>

\* C12: a declared protection with its ci_checks in any other order projects
\* to the same protection; the projected required_status_check_contexts are
\* sorted ascending; and an observed protection equal to the projection
\* yields no diff for the pattern.
C12_SortStableProjection ==
    Diffed =>
        \A i \in 1..Len(repos) :
            \A k \in 1..Len(repos[i].branch_protections) :
                LET r == repos[i]
                    bp == r.branch_protections[k]
                    projected == construct_branch_protection(r, bp)
                    contexts == projected.required_status_check_contexts
                IN  /\ \A cs \in Reorderings(ChecksOf(bp)) :
                        construct_branch_protection(r, WithChecks(bp, cs)) = projected
                    /\ \A a, b \in 1..Len(contexts) :
                        a < b => Rank(contexts[a]) <= Rank(contexts[b])
                    /\ (/\ <<r.org, r.name>> \in DOMAIN gh.repos
                        /\ bp.pattern \in DOMAIN gh.repos[<<r.org, r.name>>].protections
                        /\ gh.repos[<<r.org, r.name>>].protections[bp.pattern].bp
                               = projected)
                           => ~EmitsProtectionDiff(r.org, r.name, bp.pattern)

\* A protection declared with ci_checks b, a is observed with contexts a, b
\* and otherwise as projected: no diff is emitted for its pattern.
C12_Witness ==
    /\ Diffed
    /\ \E i \in 1..Len(repos) :
        \E k \in 1..Len(repos[i].branch_protections) :
            LET r == repos[i]
                bp == r.branch_protections[k]
            IN  /\ ChecksOf(bp) = <<"b", "a">>
                /\ bp.merge_bots = <<>>
                /\ <<r.org, r.name>> \in DOMAIN gh.repos
                /\ bp.pattern \in DOMAIN gh.repos[<<r.org, r.name>>].protections
                /\ gh.repos[<<r.org, r.name>>].protections[bp.pattern].bp
                       .required_status_check_contexts = <<"a", "b">>
                /\ ~EmitsProtectionDiff(r.org, r.name, bp.pattern)
                /\ uses_pat

-----------------------------------------------------------------------------
(* C13: role derivation *)

\* The role the claim gives to a declared member of a team of org
RoleByOwners(org, user) ==
    IF org \in DOMAIN org_owners /\ user \in org_owners[org]
    THEN "Maintainer"
    ELSE "Member"

\* The declared teams a team diff d was computed for
DeclaredFor(d) ==
    {i \in 1..Len(teams) : teams[i].org = d.org /\ teams[i].name = d.name}

\* C13: in every team Create member entry and in every member Create or
\* ChangeRole diff of a team Edit, the role given to the declared member is
\* Maintainer if the member's user id is in org_owners of the team's org and
\* Member otherwise.
C13_RoleDerivation ==
    Diffed =>
        \A k \in 1..Len(diff.team_diffs) :
            LET d == diff.team_diffs[k]
            IN  \A i \in DeclaredFor(d) :
                    LET t == teams[i]
                    IN  /\ d.kind = "Create" =>
                            /\ Len(d.members) = Len(t.members)
                            /\ \A m \in 1..Len(t.members) :
                                d.members[m] =
                                    <<usernames[t.members[m]],
                                      RoleByOwners(t.org, t.members[m])>>
                        /\ d.kind = "Edit" =>
                            /\ Len(d.member_diffs) >= Len(t.members)
                            /\ \A m \in 1..Len(t.members) :
                                LET md == d.member_diffs[m]
                                IN  /\ md[1] = usernames[t.members[m]]
                                    /\ md[2].tag = "Create" =>
                                        md[2].role = RoleByOwners(t.org, t.members[m])
                                    /\ md[2].tag = "ChangeRole" =>
                                        md[2].new = RoleByOwners(t.org, t.members[m])
                                    /\ md[2].tag # "Delete"

\* An Edit that promotes an org owner to Maintainer and adds a plain Member
C13_Witness ==
    /\ Diffed
    /\ owners["rust-lang"] = {42}
    /\ \E k \in 1..Len(diff.team_diffs) :
        LET d == diff.team_diffs[k]
        IN  /\ d.kind = "Edit"
            /\ DeclaredFor(d) # {}
            /\ \E m \in 1..Len(d.member_diffs) :
                d.member_diffs[m] =
                    <<"alice", [tag |-> "ChangeRole", old |-> "Member", new |-> "Maintainer"]>>
            /\ \E m \in 1..Len(d.member_diffs) :
                d.member_diffs[m] = <<"bob", [tag |-> "Create", role |-> "Member"]>>

\* A team Create whose members are an org owner and a plain member
C13_WitnessCreate ==
    /\ Diffed
    /\ \E k \in 1..Len(diff.team_diffs) :
        LET d == diff.team_diffs[k]
        IN  /\ d.kind = "Create"
            /\ d.members = <<<<"alice", "Maintainer">>, <<"bob", "Member">>>>

-----------------------------------------------------------------------------
(* C14: convergence after partial failure *)

\* A Diff::apply aborted, and the run that followed it applied its own Diff
\* with every write succeeding.
Recovered == Applied /\ last = "ok" /\ aborted

\* C14 as claimed: after an aborted apply and a following run applied without
\* failure, the Diff that create_diff computes next is empty.
C14_ConvergesAfterAbort == Recovered => is_empty(diff_all(gh))

\* C14 amended: after an aborted apply and a following run applied without
\* failure, the Diff that create_diff computes next has no team diff, and its
\* repo diffs are exactly one archive-only Update per declared-archived repo
\* that the following run created; it is empty when that run created no such
\* repo.
C14_ConvergesUpToArchiving ==
    Recovered =>
        LET next == diff_all(gh)
        IN  /\ next.team_diffs = <<>>
            /\ Len(next.repo_diffs) = Len(CreatedArchived)
            /\ \A j \in 1..Len(next.repo_diffs) :
                /\ ArchivesOnly(next.repo_diffs[j])
                /\ next.repo_diffs[j].org = CreatedArchived[j].org
                /\ next.repo_diffs[j].name = CreatedArchived[j].name

\* The first apply aborted between two of its writes, the following run
\* issued the remaining writes and the next Diff is empty.
C14_Witness ==
    /\ Recovered
    /\ run = 2
    /\ writes # <<>>
    /\ \E k \in 1..Len(writes) : writes[k].op \in PermissionOps \cup ProtectionOps
    /\ is_empty(diff_all(gh))

-----------------------------------------------------------------------------
(* C15: abort on transport error *)

\* The calls of a trace up to its last one succeeded and its last one failed.
EndsWithFailure(calls) ==
    /\ calls # <<>>
    /\ ~calls[Len(calls)].ok
    /\ \A i \in 1..(Len(calls) - 1) : calls[i].ok

\* The entry of the Diff a write belongs to comes at or before the entry e.
NotAfter(w, e) ==
    \/ w.entry[1] = "team" /\ e[1] = "repo"
    \/ w.entry[1] = e[1] /\ w.entry[2] <= e[2]

\* C15: when a capability call fails, the error is returned and no later call
\* is issued.  A failing read in create_diff is the last read call and
\* create_diff yields no Diff; a failing write in Diff::apply is the last
\* write call, Diff::apply returns the error, and no write of a later team or
\* repo diff is issued.  Without a failure every call the run issues succeeds.
C15_AbortOnError ==
    /\ pc = "errored" =>
        /\ EndsWithFailure(reads)
        /\ diff = EmptyDiff
    /\ pc \in {"diffed", "panicked"} => \A i \in 1..Len(reads) : reads[i].ok
    /\ last = "failed" =>
        /\ EndsWithFailure(writes)
        /\ \A k \in 1..Len(writes) : NotAfter(writes[k], writes[Len(writes)].entry)
    /\ last = "ok" => \A k \in 1..Len(writes) : writes[k].ok
    /\ (\E k \in 1..Len(writes) : ~writes[k].ok) => last = "failed"

\* An apply aborted on a write of its first team diff, after one write that
\* succeeded, leaving the repo diffs unapplied; the next create_diff aborted
\* on a read that is neither its first nor the last it would have issued.
C15_Witness ==
    /\ pc = "errored"
    /\ run = 2
    /\ Len(reads) > 2
    /\ Len(reads) < Len(ReadCalls(gh))
    /\ EndsWithFailure(reads)
    /\ last = "failed"
    /\ Len(writes) > 1
    /\ writes[Len(writes)].entry = <<"team", 1>>
    /\ diff_all(gh).repo_diffs # <<>>
    /\ Len(diff_all(gh).team_diffs) > 1

-----------------------------------------------------------------------------
(* C16: the only team preservation *)

\* The teams observed on the declared repo r that r does not declare
UndeclaredTeams(r) ==
    IF <<r.org, r.name>> \in DOMAIN gh.repos
    THEN {n \in DOMAIN gh.repos[<<r.org, r.name>>].teams : ~DeclaresTeam(r, n)}
    ELSE {}

\* The user names of the bots r declares
BotUserNames(r) ==
    {Unwrap(bot_user_name(r.bots[i])) :
        i \in {x \in 1..Len(r.bots) : IsSome(bot_user_name(r.bots[x]))}}

\* The permission diffs of r hold a Delete of the team.
DeletesTeam(r, name) ==
    \E p \in PermissionDiffsOf(r) :
        /\ p.collaborator = TeamCollaborator(name)
        /\ p.diff.tag = "Delete"

\* C16 as claimed: every observed repo team that the repo does not declare,
\* other than team security in org rust-lang, is emitted as a Delete
\* permission diff for that team.
C16_OnlySecurityKept ==
    Diffed =>
        \A i \in 1..Len(repos) :
            \A n \in UndeclaredTeams(repos[i]) :
                ~(n = "security" /\ repos[i].org = "rust-lang")
                    => DeletesTeam(repos[i], n)

\* C16 amended: an observed repo team that the repo does not declare is
\* emitted as a Delete permission diff for that team if and only if it is
\* neither team security in org rust-lang nor a team bearing the user name of
\* a bot the repo declares.
C16_SecurityAndBotTeamsKept ==
    Diffed =>
        \A i \in 1..Len(repos) :
            \A n \in UndeclaredTeams(repos[i]) :
                DeletesTeam(repos[i], n) <=>
                    /\ ~(n = "security" /\ repos[i].org = "rust-lang")
                    /\ n \notin BotUserNames(repos[i])

\* Outside rust-lang an undeclared security team is deleted while the
\* undeclared team bors of a repo that declares the bot Bors is not.
C16_Witness ==
    /\ Diffed
    /\ \E i \in 1..Len(repos) :
        /\ repos[i].org # "rust-lang"
        /\ {"security", "bors"} \subseteq UndeclaredTeams(repos[i])
        /\ "bors" \in BotUserNames(repos[i])
        /\ DeletesTeam(repos[i], "security")
        /\ ~DeletesTeam(repos[i], "bors")

-----------------------------------------------------------------------------
(* C17: creating a repo never archives it *)

Creates == {j \in 1..Len(diff.repo_diffs) : diff.repo_diffs[j].kind = "Create"}

\* The Create the Diff holds for the declared repo r, as a set
CreatesOf(r) ==
    {j \in Creates : diff.repo_diffs[j].org = r.org /\ diff.repo_diffs[j].name = r.name}

\* C17: when the declared repo does not exist on the provider, the emitted
\* Create carries settings with archived = false whatever the declaration
\* says, and the description, homepage and auto_merge_enabled of the
\* declaration; when the Create is applied, create_repo with those settings is
\* its first write and its only create_repo.
C17_CreateNeverArchives ==
    /\ Diffed =>
        \A i \in 1..Len(repos) :
            <<repos[i].org, repos[i].name>> \notin DOMAIN gh.repos =>
                /\ CreatesOf(repos[i]) # {}
                /\ \A j \in CreatesOf(repos[i]) :
                    diff.repo_diffs[j].settings =
                        [description |-> repos[i].description,
                         homepage |-> repos[i].homepage,
                         archived |-> FALSE,
                         auto_merge_enabled |-> repos[i].auto_merge_enabled]
    /\ (Diffed \/ Applied) => \A j \in Creates : ~diff.repo_diffs[j].settings.archived
    /\ Applied =>
        \A j \in Creates :
            LET ws == EntryWrites(<<"repo", j>>)
                c == diff.repo_diffs[j]
            IN  ws # <<>> =>
                    /\ ws[1].op = "create_repo"
                    /\ ws[1].args = [org |-> c.org, name |-> c.name, settings |-> c.settings]
                    /\ \A k \in 2..Len(ws) : ws[k].op # "create_repo"

\* A repo declared archived, with a team and a branch protection, was created:
\* create_repo with archived = false came first, the permission and the
\* protection writes after it.
C17_Witness ==
    /\ Applied
    /\ last = "ok"
    /\ run = 1
    /\ \E j \in Creates :
        LET ws == EntryWrites(<<"repo", j>>)
        IN  /\ \E i \in 1..Len(repos) :
                /\ j \in CreatesOf(repos[i])
                /\ repos[i].archived
                /\ repos[i].auto_merge_enabled
                /\ repos[i].homepage # None
            /\ Len(ws) = 3
            /\ ws[1].op = "create_repo"
            /\ ~ws[1].args.settings.archived
            /\ ws[1].args.settings.auto_merge_enabled
            /\ ws[2].op \in PermissionOps
            /\ ws[3].op \in ProtectionOps

-----------------------------------------------------------------------------
(* C18: the privileged repo without a PAT *)

\* The Diff holds an Update of the declared repo r.
HasUpdate(r) ==
    \E j \in Updates : diff.repo_diffs[j].org = r.org /\ diff.repo_diffs[j].name = r.name

\* The branch-protection diffs that the Diff holds for the declared repo r:
\* those of its Update, none when the Diff has no Update for r
ProtectionDiffsOf(r) ==
    IF HasUpdate(r)
    THEN LET j == CHOOSE x \in Updates :
                      diff.repo_diffs[x].org = r.org /\ diff.repo_diffs[x].name = r.name
         IN  diff.repo_diffs[j].branch_protection_diffs
    ELSE <<>>

\* The protections of the observed repo diffed against those r declares
DiffedNormally(actual_repo, r) ==
    LET loop == ProtectionLoop(r, 1, actual_repo.protections, <<>>)
    IN  loop.diffs \o ProtectionDeletes(loop.actual_protections)

\* create_diff read the branch protections of the repo.
ReadsProtections(org, name) ==
    \E k \in 1..Len(reads) :
        reads[k].op = "branch_protections" /\ reads[k].args = <<org, name>>

\* C18: when uses_pat() = false and the existing repo is rust-lang/rust, the
\* Update's branch-protection diff list is empty and branch_protections is not
\* read; for every other existing repo, or when uses_pat() = true, the
\* protections are read and diffed normally: the Update carries the diffs of
\* the observed protections against the declared ones, and diff_repos leaves
\* the Update out only when there is none of them or the repo is archived on
\* both sides.
C18_PatlessPrivilegedRepo ==
    Diffed =>
        \A i \in 1..Len(repos) :
            LET key == <<repos[i].org, repos[i].name>>
            IN  key \in DOMAIN gh.repos =>
                    IF ~uses_pat /\ key = <<"rust-lang", "rust">>
                    THEN /\ ProtectionDiffsOf(repos[i]) = <<>>
                         /\ ~ReadsProtections(key[1], key[2])
                    ELSE /\ ReadsProtections(key[1], key[2])
                         /\ HasUpdate(repos[i]) =>
                                ProtectionDiffsOf(repos[i]) =
                                    DiffedNormally(gh.repos[key], repos[i])
                         /\ ~HasUpdate(repos[i]) =>
                                \/ DiffedNormally(gh.repos[key], repos[i]) = <<>>
                                \/ gh.repos[key].archived /\ repos[i].archived

\* Without a PAT, rust-lang/rust is observed with protections that differ from
\* the declared ones in a pattern to update and a pattern to delete: nothing
\* is read and nothing is emitted.
C18_Witness ==
    /\ Diffed
    /\ ~uses_pat
    /\ \E i \in 1..Len(repos) :
        LET key == <<repos[i].org, repos[i].name>>
        IN  /\ key = <<"rust-lang", "rust">>
            /\ key \in DOMAIN gh.repos
            /\ \E k \in 1..Len(DiffedNormally(gh.repos[key], repos[i])) :
                DiffedNormally(gh.repos[key], repos[i])[k].operation.tag = "Update"
            /\ \E k \in 1..Len(DiffedNormally(gh.repos[key], repos[i])) :
                DiffedNormally(gh.repos[key], repos[i])[k].operation.tag = "Delete"
            /\ ProtectionDiffsOf(repos[i]) = <<>>
            /\ ~ReadsProtections(key[1], key[2])

\* Without a PAT, the protections of another repo are read and diffed.
C18_WitnessOtherRepo ==
    /\ Diffed
    /\ ~uses_pat
    /\ \E i \in 1..Len(repos) :
        /\ repos[i].name # "rust"
        /\ ProtectionDiffsOf(repos[i]) # <<>>
        /\ ReadsProtections(repos[i].org, repos[i].name)

-----------------------------------------------------------------------------
(* C19: member diffing of an existing team *)

\* The declared teams that exist on the provider
ExistingTeams ==
    {i \in 1..Len(teams) : <<teams[i].org, teams[i].name>> \in DOMAIN gh.teams}

ObservedTeam(i) == gh.teams[<<teams[i].org, teams[i].name>>]

\* The member diff the claim gives to member number m of the declared team i
ClaimedMemberDiff(i, m) ==
    LET member == teams[i].members[m]
        observed == ObservedTeam(i)
        role == RoleByOwners(teams[i].org, member)
    IN  IF member \in DOMAIN observed.members
        THEN IF observed.members[member].role # role
             THEN [tag |-> "ChangeRole", old |-> observed.members[member].role,
                   new |-> role]
             ELSE [tag |-> "Noop"]
        ELSE IF usernames[member] \in observed.invites
             THEN [tag |-> "Noop"]
             ELSE [tag |-> "Create", role |-> role]

\* The user names of the observed members of team i that it does not declare
UndeclaredMembers(i) ==
    {ObservedTeam(i).members[u].username :
        u \in DOMAIN ObservedTeam(i).members \ Range(teams[i].members)}

\* The Edits the Diff holds for the declared team i
EditsOf(i) ==
    {k \in 1..Len(diff.team_diffs) :
        /\ diff.team_diffs[k].kind = "Edit"
        /\ diff.team_diffs[k].org = teams[i].org
        /\ diff.team_diffs[k].name = ObservedTeam(i).name}

\* C19: for a declared team that exists, each declared member yields
\* ChangeRole(old, expected) if observed with another role, Noop if observed
\* with the expected role or not a member but invited, Create(expected) if
\* neither; after them every observed member that is not declared yields one
\* Delete, and no declared member yields Delete.  diff_teams leaves the Edit
\* out only when all of this is Noop.
C19_MemberDiffs ==
    Diffed =>
        \A i \in ExistingTeams :
            LET n == Len(teams[i].members)
            IN  /\ \A k \in EditsOf(i) :
                    LET mds == diff.team_diffs[k].member_diffs
                    IN  /\ Len(mds) = n + Cardinality(UndeclaredMembers(i))
                        /\ \A m \in 1..n :
                            mds[m] = <<usernames[teams[i].members[m]],
                                       ClaimedMemberDiff(i, m)>>
                        /\ \A m \in (n + 1)..Len(mds) : mds[m][2] = [tag |-> "Delete"]
                        /\ {mds[m][1] : m \in (n + 1)..Len(mds)} = UndeclaredMembers(i)
                /\ EditsOf(i) = {} =>
                    /\ \A m \in 1..n : ClaimedMemberDiff(i, m).tag = "Noop"
                    /\ UndeclaredMembers(i) = {}

\* An Edit that changes the role of a declared member and deletes an observed
\* member that is not declared
C19_Witness ==
    /\ Diffed
    /\ \E i \in ExistingTeams :
        \E k \in EditsOf(i) :
            LET mds == diff.team_diffs[k].member_diffs
            IN  /\ Len(mds) = 2
                /\ mds[1][2].tag = "ChangeRole"
                /\ mds[2][2].tag = "Delete"
                /\ mds[1][1] # mds[2][1]

\* An Edit that adds a declared member and leaves an invited one alone
C19_WitnessInvited ==
    /\ Diffed
    /\ \E i \in ExistingTeams :
        /\ ObservedTeam(i).invites # {}
        /\ \E k \in EditsOf(i) :
            LET mds == diff.team_diffs[k].member_diffs
            IN  /\ Len(mds) = 2
                /\ {mds[1][2].tag, mds[2][2].tag} = {"Noop", "Create"}

-----------------------------------------------------------------------------
(* C20: the branch-protection differ *)

\* The declared repos whose observed protections create_diff diffs
DiffedRepos ==
    {i \in 1..Len(repos) :
        /\ <<repos[i].org, repos[i].name>> \in DOMAIN gh.repos
        /\ uses_pat \/ <<repos[i].org, repos[i].name>> # <<"rust-lang", "rust">>}

ObservedProtectionsOf(i) == gh.repos[<<repos[i].org, repos[i].name>>].protections

\* What the differ emits for declared protection number k of repo i when it
\* compares the observed protection with target(projected, observed): a
\* sequence of no or one operation
ClaimedOperation(i, k, target(_, _)) ==
    LET declared == repos[i].branch_protections[k]
        projected == construct_branch_protection(repos[i], declared)
        observed == ObservedProtectionsOf(i)
    IN  IF declared.pattern \notin DOMAIN observed
        THEN <<[pattern |-> declared.pattern,
                operation |-> [tag |-> "Create", new |-> projected]]>>
        ELSE LET o == observed[declared.pattern]
             IN  IF o.bp = target(projected, o.bp)
                 THEN <<>>
                 ELSE <<[pattern |-> declared.pattern,
                         operation |-> [tag |-> "Update", id |-> o.id, old |-> o.bp,
                                        new |-> target(projected, o.bp)]]>>

\* The observed protections of repo i whose pattern it does not declare, as
\* the Deletes of their database ids
ClaimedDeletes(i) ==
    {[pattern |-> p, operation |-> [tag |-> "Delete", id |-> ObservedProtectionsOf(i)[p].id]] :
        p \in {q \in DOMAIN ObservedProtectionsOf(i) :
                 \A k \in 1..Len(repos[i].branch_protections) :
                     repos[i].branch_protections[k].pattern # q}}

\* The Diff holds for repo i the claimed operations of its declared
\* protections, in order, then the claimed Deletes; diff_repos leaves the
\* Update out only when there is none of them or the repo is archived on both
\* sides.
DifferEmits(i, target(_, _)) ==
    LET ops == Flatten([k \in 1..Len(repos[i].branch_protections) |->
                           ClaimedOperation(i, k, target)])
        list == ProtectionDiffsOf(repos[i])
    IN  IF HasUpdate(repos[i])
        THEN /\ Len(list) = Len(ops) + Cardinality(ClaimedDeletes(i))
             /\ SubSeq(list, 1, Len(ops)) = ops
             /\ {list[x] : x \in (Len(ops) + 1)..Len(list)} = ClaimedDeletes(i)
        ELSE \/ ops = <<>> /\ ClaimedDeletes(i) = {}
             \/ /\ gh.repos[<<repos[i].org, repos[i].name>>].archived
                /\ repos[i].archived

Projection(projected, observed) == projected

ProjectionAndObservedApps(projected, observed) ==
    [projected EXCEPT !.push_allowances = @ \o AppsOf(observed.push_allowances)]

\* C20 as claimed: for each declared protection, Create(projected) if no
\* observed protection has its pattern, nothing if the observed protection
\* equals the projected one, Update(observed database id, observed,
\* projected) otherwise; every observed protection whose pattern is not
\* declared is emitted as Delete(its database id) and no declared pattern is.
C20_DifferAgainstProjection ==
    Diffed => \A i \in DiffedRepos : DifferEmits(i, Projection)

\* C20 amended: the observed protection of a declared pattern is compared
\* with the projected one extended by the observed App actors, appended in
\* their observed order after the projected push allowances: nothing is
\* emitted if they are equal, Update(observed database id, observed, extended
\* projection) otherwise; Create(projected) if no observed protection has the
\* pattern; every observed protection whose pattern is not declared is
\* emitted as Delete(its database id) and no declared pattern is.
C20_DifferAgainstProjectionWithApps ==
    Diffed => \A i \in DiffedRepos : DifferEmits(i, ProjectionAndObservedApps)

\* An Update of the declared pattern whose new protection ends with the
\* observed App actor, and a Delete of the observed pattern that is not
\* declared
C20_Witness ==
    /\ Diffed
    /\ \E i \in DiffedRepos :
        LET list == ProtectionDiffsOf(repos[i])
        IN  /\ Len(list) = 2
            /\ list[1].operation.tag = "Update"
            /\ list[1].operation.id = 11
            /\ AppsOf(list[1].operation.old.push_allowances) # <<>>
            /\ list[1].operation.new.push_allowances
                    # construct_branch_protection(
                          repos[i], repos[i].branch_protections[1]).push_allowances
            /\ list[2] = [pattern |-> "stable", operation |-> [tag |-> "Delete", id |-> 12]]

-----------------------------------------------------------------------------
(* C21: the order of the permission diffs *)

\* The permission diffs of entry j of repo_diffs
PermissionList(j) ==
    IF diff.repo_diffs[j].kind = "Update"
    THEN diff.repo_diffs[j].permission_diffs
    ELSE diff.repo_diffs[j].permissions

\* The declared repo that entry j of repo_diffs was computed for
DeclaredRepoOf(j) ==
    CHOOSE i \in 1..Len(repos) :
        repos[i].org = diff.repo_diffs[j].org /\ repos[i].name = diff.repo_diffs[j].name

\* The user names of the declared bots that have one, in declaration order
BotUserNameSeq(r) ==
    LET withName == SelectSeq(r.bots, LAMBDA b : IsSome(bot_user_name(b)))
    IN  [x \in 1..Len(withName) |-> Unwrap(bot_user_name(withName[x]))]

\* The place of a name in a sequence of names: its first index, 0 if absent
PlaceIn(names, n) ==
    IF \E x \in 1..Len(names) : names[x] = n
    THEN CHOOSE x \in 1..Len(names) : names[x] = n /\ \A y \in 1..(x - 1) : names[y] # n
    ELSE 0

\* The group of the claim a permission diff p of the declared repo r is in,
\* with its place in the group: 1 declared teams, 2 declared bot users,
\* 3 declared members, 4 Deletes of teams, 5 Deletes of collaborators
GroupOf(r, p) ==
    LET teamNames == [x \in 1..Len(r.teams) |-> r.teams[x].name]
        memberNames == [x \in 1..Len(r.members) |-> r.members[x].name]
    IN  IF p.diff.tag = "Delete"
        THEN IF p.collaborator.tag = "Team" THEN <<4, 0>> ELSE <<5, 0>>
        ELSE IF p.collaborator.tag = "Team"
             THEN <<1, PlaceIn(teamNames, p.collaborator.name)>>
             ELSE IF PlaceIn(BotUserNameSeq(r), p.collaborator.name) > 0
                  THEN <<2, PlaceIn(BotUserNameSeq(r), p.collaborator.name)>>
                  ELSE <<3, PlaceIn(memberNames, p.collaborator.name)>>

\* C21: the permission diff list of a repo holds the entries of the declared
\* teams in declaration order, then those of the declared bot users, then
\* those of the declared members, then the Deletes of the observed teams that
\* are not declared, then the Deletes of the observed collaborators that are
\* not declared.
C21_PermissionGroupsInOrder ==
    Diffed =>
        \A j \in 1..Len(diff.repo_diffs) :
            LET ps == PermissionList(j)
                r == repos[DeclaredRepoOf(j)]
            IN  \A x, y \in 1..Len(ps) :
                    x < y =>
                        LET gx == GroupOf(r, ps[x])
                            gy == GroupOf(r, ps[y])
                        IN  /\ gx[1] <= gy[1]
                            /\ gx[1] = gy[1] /\ gx[1] <= 3 => gx[2] < gy[2]
                            /\ gx[1] <= 3 => gx[2] > 0

\* One list holds an entry of each of the five groups, the declared teams
\* not in alphabetical order.
C21_Witness ==
    /\ Diffed
    /\ \E j \in 1..Len(diff.repo_diffs) :
        LET ps == PermissionList(j)
            r == repos[DeclaredRepoOf(j)]
        IN  /\ {GroupOf(r, ps[x])[1] : x \in 1..Len(ps)} = 1..5
            /\ \E x \in 1..(Len(ps) - 1) :
                /\ ps[x].collaborator = TeamCollaborator("security")
                /\ ps[x + 1].collaborator = TeamCollaborator("core")

-----------------------------------------------------------------------------
(* C22: the permissions of the declared teams and members *)

\* The entries of repo_diffs computed for the declared repo number i
EntriesOf(i) ==
    {j \in 1..Len(diff.repo_diffs) :
        /\ diff.repo_diffs[j].org = repos[i].org
        /\ diff.repo_diffs[j].name = repos[i].name}

\* The observed permissions of the declared repo number i, by team name and by
\* collaborator name: none for a repo that does not exist
ObservedRepoTeams(i) ==
    IF <<repos[i].org, repos[i].name>> \in DOMAIN gh.repos
    THEN gh.repos[<<repos[i].org, repos[i].name>>].teams ELSE EmptyMap

ObservedCollaborators(i) ==
    IF <<repos[i].org, repos[i].name>> \in DOMAIN gh.repos
    THEN gh.repos[<<repos[i].org, repos[i].name>>].collaborators ELSE EmptyMap

\* The entries the claim gives to a declared collaborator: none when observed
\* with the declared permission, Update(old, new) when observed with another,
\* Create(new) when not observed
ClaimedPermissionEntries(collaborator, observed, permission) ==
    IF collaborator.name \in DOMAIN observed
    THEN IF observed[collaborator.name] = permission
         THEN <<>>
         ELSE <<[collaborator |-> collaborator,
                 diff |-> [tag |-> "Update", old |-> observed[collaborator.name],
                           new |-> permission]]>>
    ELSE <<[collaborator |-> collaborator, diff |-> [tag |-> "Create", new |-> permission]]>>

\* The entries of a permission list for one collaborator, in order
EntriesFor(ps, collaborator) == SelectSeq(ps, LAMBDA p : p.collaborator = collaborator)

\* The permission list computed for the declared repo number i: that of its
\* entry in the Diff, empty when diff_repos left a no-op Update out
PermissionListOf(i) ==
    IF EntriesOf(i) = {} THEN <<>> ELSE PermissionList(CHOOSE j \in EntriesOf(i) : TRUE)

\* diff_repos left the Update of the declared repo number i out because the
\* repo is archived on both sides: its permission list is in no Diff.
LeftOutArchived(i) ==
    /\ EntriesOf(i) = {}
    /\ <<repos[i].org, repos[i].name>> \in DOMAIN gh.repos
    /\ gh.repos[<<repos[i].org, repos[i].name>>].archived
    /\ repos[i].archived

\* C22: for each declared team and each declared user member of a repo, no
\* entry is emitted when the observed permission equals the declared one,
\* Update(old, new) when it is observed with a different permission, and
\* Create(new) when it is not observed; a declared team or member never
\* yields a Delete.
C22_DeclaredPermissions ==
    Diffed =>
        \A i \in {y \in 1..Len(repos) : ~LeftOutArchived(y)} :
            /\ \A x \in 1..Len(repos[i].teams) :
                EntriesFor(PermissionListOf(i), TeamCollaborator(repos[i].teams[x].name))
                    = ClaimedPermissionEntries(
                          TeamCollaborator(repos[i].teams[x].name),
                          ObservedRepoTeams(i),
                          convert_permission(repos[i].teams[x].permission))
            /\ \A x \in 1..Len(repos[i].members) :
                EntriesFor(PermissionListOf(i), UserCollaborator(repos[i].members[x].name))
                    = ClaimedPermissionEntries(
                          UserCollaborator(repos[i].members[x].name),
                          ObservedCollaborators(i),
                          convert_permission(repos[i].members[x].permission))

\* One list updates a declared team, creates another, and has nothing for a
\* declared member observed with the declared permission.
C22_Witness ==
    /\ Diffed
    /\ \E i \in 1..Len(repos) :
        LET ps == PermissionListOf(i)
        IN  /\ \E x \in 1..Len(ps) :
                ps[x].collaborator.tag = "Team" /\ ps[x].diff.tag = "Update"
            /\ \E x \in 1..Len(ps) :
                ps[x].collaborator.tag = "Team" /\ ps[x].diff.tag = "Create"
            /\ \E x \in 1..Len(repos[i].members) :
                /\ repos[i].members[x].name \in DOMAIN ObservedCollaborators(i)
                /\ EntriesFor(ps, UserCollaborator(repos[i].members[x].name)) = <<>>

-----------------------------------------------------------------------------
(* C23: the permissions of the declared bots *)

\* The names of the declared user members of the repo r
MemberNames(r) == {r.members[x].name : x \in 1..Len(r.members)}

\* C23: each declared bot that maps to a user name is reconciled as a user
\* collaborator with permission Write (Create if absent, Update to Write if
\* observed with another permission, nothing if already Write), and an
\* observed repo team bearing that user name is in no Delete; a declared bot
\* with no user name yields no entry: every entry of a user that is not a
\* Delete is that of a declared bot's user name or of a declared member.
C23_BotPermissions ==
    Diffed =>
        \A i \in {y \in 1..Len(repos) : ~LeftOutArchived(y)} :
            LET ps == PermissionListOf(i)
            IN  /\ \A n \in BotUserNames(repos[i]) :
                    /\ EntriesFor(ps, UserCollaborator(n))
                          = ClaimedPermissionEntries(
                                UserCollaborator(n), ObservedCollaborators(i), "Write")
                    /\ ~DeclaresTeam(repos[i], n) =>
                          EntriesFor(ps, TeamCollaborator(n)) = <<>>
                /\ \A x \in 1..Len(ps) :
                    (ps[x].collaborator.tag = "User" /\ ps[x].diff.tag # "Delete") =>
                        ps[x].collaborator.name
                            \in BotUserNames(repos[i]) \cup MemberNames(repos[i])

\* The bot Bors is declared: its user is observed with Admin and updated to
\* Write, the observed team bors is left alone while another team is deleted.
C23_Witness ==
    /\ Diffed
    /\ \E i \in 1..Len(repos) :
        LET ps == PermissionListOf(i)
        IN  /\ "bors" \in BotUserNames(repos[i])
            /\ "bors" \in DOMAIN ObservedRepoTeams(i)
            /\ EntriesFor(ps, UserCollaborator("bors"))
                  = <<[collaborator |-> UserCollaborator("bors"),
                       diff |-> [tag |-> "Update", old |-> "Admin", new |-> "Write"]]>>
            /\ EntriesFor(ps, TeamCollaborator("bors")) = <<>>
            /\ \E x \in 1..Len(ps) :
                ps[x].collaborator.tag = "Team" /\ ps[x].diff.tag = "Delete"

\* The bots Renovate and Rustbot are declared: one entry creates rustbot,
\* none is for Renovate.
C23_WitnessApp ==
    /\ Diffed
    /\ \E i \in 1..Len(repos) :
        LET ps == PermissionListOf(i)
        IN  /\ repos[i].bots = <<"Renovate", "Rustbot">>
            /\ repos[i].members = <<>>
            /\ SelectSeq(ps, LAMBDA p : p.collaborator.tag = "User" /\ p.diff.tag # "Delete")
                  = <<[collaborator |-> UserCollaborator("rustbot"),
                       diff |-> [tag |-> "Create", new |-> "Write"]]>>

-----------------------------------------------------------------------------
(* C24: applying a team Edit *)

\* A write call as its name and arguments
CallOf(w) == [op |-> w.op, args |-> w.args]

\* Diff::apply went past entry k of team_diffs without a failure.
TeamEntryCompleted(k) ==
    \/ last = "ok"
    \/ \E x \in 1..Len(writes) :
        \/ writes[x].entry[1] = "repo"
        \/ writes[x].entry[1] = "team" /\ writes[x].entry[2] > k

\* The calls issued for one entry are the first calls of the sequence
\* claimed, all of them when apply went past the entry, and only the last one
\* issued may have failed.
IssuesInOrder(entry, completed, claimed) ==
    LET ws == EntryWrites(entry)
    IN  /\ Len(ws) <= Len(claimed)
        /\ \A x \in 1..Len(ws) : CallOf(ws[x]) = claimed[x]
        /\ completed => Len(ws) = Len(claimed) /\ \A x \in 1..Len(ws) : ws[x].ok
        /\ \A x \in 1..(Len(ws) - 1) : ws[x].ok

\* The write the claim gives to one member diff: none for a Noop
ClaimedMemberCalls(org, team, md) ==
    IF md[2].tag = "Noop" THEN <<>>
    ELSE IF md[2].tag = "Delete"
         THEN <<[op |-> "remove_team_membership",
                 args |-> [org |-> org, team |-> team, member |-> md[1]]]>>
         ELSE <<[op |-> "set_team_membership",
                 args |-> [org |-> org, team |-> team, member |-> md[1],
                           role |-> IF md[2].tag = "Create" THEN md[2].role
                                    ELSE md[2].new]]>>

\* The calls the claim gives to a team Edit
ClaimedEditCalls(e) ==
    (IF e.name_diff # None \/ e.description_diff # None \/ e.privacy_diff # None
     THEN <<[op |-> "edit_team",
             args |-> [org |-> e.org, name |-> e.name, new_name |-> e.name_diff,
                       new_description |->
                           IF e.description_diff = None THEN None
                           ELSE Some(e.description_diff[1][2]),
                       new_privacy |->
                           IF e.privacy_diff = None THEN None
                           ELSE Some(e.privacy_diff[1][2])]]>>
     ELSE <<>>)
    \o Flatten([x \in 1..Len(e.member_diffs) |->
                   ClaimedMemberCalls(e.org, e.name, e.member_diffs[x])])

\* C24: applying a team Edit issues exactly one edit_team call if at least one
\* of name, description, privacy changed and none otherwise, before any
\* per-member write; then, in member_diffs order, set_team_membership for
\* each Create or ChangeRole, remove_team_membership for each Delete, and no
\* write for a Noop.
C24_TeamEditWrites ==
    Applied =>
        \A k \in 1..Len(diff.team_diffs) :
            diff.team_diffs[k].kind = "Edit" =>
                IssuesInOrder(<<"team", k>>, TeamEntryCompleted(k),
                              ClaimedEditCalls(diff.team_diffs[k]))

\* An Edit with a changed description, a role change and a removal was
\* applied: edit_team, set_team_membership, remove_team_membership.
C24_Witness ==
    /\ Applied
    /\ last = "ok"
    /\ \E k \in 1..Len(diff.team_diffs) :
        LET ws == EntryWrites(<<"team", k>>)
        IN  /\ diff.team_diffs[k].kind = "Edit"
            /\ Len(ws) = 3
            /\ ws[1].op = "edit_team"
            /\ ws[2].op = "set_team_membership"
            /\ ws[3].op = "remove_team_membership"

\* An Edit with no changed field, a Noop and a Create was applied: one
\* set_team_membership and nothing else.
C24_WitnessMembersOnly ==
    /\ Applied
    /\ last = "ok"
    /\ \E k \in 1..Len(diff.team_diffs) :
        LET ws == EntryWrites(<<"team", k>>)
            e == diff.team_diffs[k]
        IN  /\ e.kind = "Edit"
            /\ e.description_diff = None /\ e.privacy_diff = None
            /\ \E x \in 1..Len(e.member_diffs) : e.member_diffs[x][2].tag = "Noop"
            /\ Len(ws) = 1
            /\ ws[1].op = "set_team_membership"

-----------------------------------------------------------------------------
(* C25: applying a team Create *)

\* The calls the claim gives to a team Create
ClaimedCreateCalls(c) ==
    <<[op |-> "create_team",
       args |-> [org |-> c.org, name |-> c.name, description |-> c.description,
                 privacy |-> c.privacy]]>>
    \o [x \in 1..Len(c.members) |->
           [op |-> "set_team_membership",
            args |-> [org |-> c.org, team |-> c.name, member |-> c.members[x][1],
                      role |-> c.members[x][2]]]]

\* C25: applying a team Create issues exactly one create_team call first,
\* followed by exactly one set_team_membership call per member of the Create,
\* in member order; if create_team fails no membership call is issued.
C25_TeamCreateWrites ==
    Applied =>
        \A k \in 1..Len(diff.team_diffs) :
            diff.team_diffs[k].kind = "Create" =>
                LET ws == EntryWrites(<<"team", k>>)
                IN  /\ IssuesInOrder(<<"team", k>>, TeamEntryCompleted(k),
                                     ClaimedCreateCalls(diff.team_diffs[k]))
                    /\ (ws # <<>> /\ ~ws[1].ok) => Len(ws) = 1

\* A Create of a team with two members was applied: create_team and then one
\* set_team_membership per member.
C25_Witness ==
    /\ Applied
    /\ last = "ok"
    /\ \E k \in 1..Len(diff.team_diffs) :
        LET ws == EntryWrites(<<"team", k>>)
        IN  /\ diff.team_diffs[k].kind = "Create"
            /\ Len(diff.team_diffs[k].members) = 2
            /\ Len(ws) = 3
            /\ ws[1].op = "create_team"
            /\ ws[2].op = "set_team_membership"
            /\ ws[3].op = "set_team_membership"

\* create_team failed for a team with members, and nothing followed.
C25_WitnessFailed ==
    /\ Applied
    /\ last = "failed"
    /\ \E k \in 1..Len(diff.team_diffs) :
        /\ diff.team_diffs[k].kind = "Create"
        /\ diff.team_diffs[k].members # <<>>
        /\ Len(EntryWrites(<<"team", k>>)) = 1
        /\ ~EntryWrites(<<"team", k>>)[1].ok

-----------------------------------------------------------------------------
(* C26: applying a team Delete *)

\* The call the claim gives to a team Delete
ClaimedDeleteCalls(d) ==
    <<[op |-> "delete_team", args |-> [org |-> d.org, slug |-> d.slug]]>>

\* C26: applying a team Delete issues exactly one delete_team call whose team
\* argument is the provider slug that org_teams returned for that team, not the
\* team's name.  The Delete carries the slug org_teams returned (seen when the
\* diff has just been computed), and the call carries the Delete's slug.
C26_TeamDeleteBySlug ==
    \A k \in 1..Len(diff.team_diffs) :
        diff.team_diffs[k].kind = "Delete" =>
            LET d == diff.team_diffs[k]
            IN  /\ Diffed =>
                    /\ d.name \in DOMAIN ReadOrgTeams(gh, d.org)
                    /\ d.slug = ReadOrgTeams(gh, d.org)[d.name]
                /\ Applied =>
                    IssuesInOrder(<<"team", k>>, TeamEntryCompleted(k),
                                  ClaimedDeleteCalls(d))

\* A team whose slug differs from its name was deleted by its slug.
C26_Witness ==
    /\ Applied
    /\ last = "ok"
    /\ \E k \in 1..Len(diff.team_diffs) :
        LET ws == EntryWrites(<<"team", k>>)
        IN  /\ diff.team_diffs[k].kind = "Delete"
            /\ diff.team_diffs[k].name = "WG Ghost"
            /\ Len(ws) = 1
            /\ ws[1].op = "delete_team"
            /\ ws[1].args.slug = "wg-ghost"
            /\ <<diff.team_diffs[k].org, "WG Ghost">> \notin DOMAIN gh.teams

-----------------------------------------------------------------------------
(* C27: how a branch-protection diff is written *)

\* The branch-protection writes of entry j of repo_diffs, in the order issued
ProtectionWrites(j) ==
    SelectSeq(EntryWrites(<<"repo", j>>), LAMBDA w : w.op \in ProtectionOps)

\* The call the claim gives to one branch-protection diff of a repo
ClaimedProtectionCall(org, repo_name, node_id, b) ==
    CASE b.operation.tag = "Create" ->
            [op |-> "upsert_branch_protection",
             args |-> [op |-> [tag |-> "CreateForRepo", id |-> node_id],
                       pattern |-> b.pattern, bp |-> b.operation.new, org |-> org]]
      [] b.operation.tag = "Update" ->
            [op |-> "upsert_branch_protection",
             args |-> [op |-> [tag |-> "UpdateBranchProtection", id |-> b.operation.id],
                       pattern |-> b.pattern, bp |-> b.operation.new, org |-> org]]
      [] b.operation.tag = "Delete" ->
            [op |-> "delete_branch_protection",
             args |-> [org |-> org, repo |-> repo_name, id |-> b.operation.id]]

\* The node id of a repo on the provider, 0 when the provider has no such repo
NodeIdOn(org, name) ==
    IF <<org, name>> \in DOMAIN gh.repos THEN gh.repos[<<org, name>>].node_id ELSE 0

\* The branch-protection calls the claim gives to entry j of repo_diffs, once
\* applied.  A repo that the apply created has on the provider the node id
\* that create_repo returned.
ClaimedProtectionCalls(j) ==
    LET r == diff.repo_diffs[j]
    IN  IF r.kind = "Create"
        THEN [x \in 1..Len(r.branch_protections) |->
                ClaimedProtectionCall(r.org, r.name, NodeIdOn(r.org, r.name),
                    [pattern |-> r.branch_protections[x][1],
                     operation |-> [tag |-> "Create",
                                    new |-> r.branch_protections[x][2]]])]
        ELSE [x \in 1..Len(r.branch_protection_diffs) |->
                ClaimedProtectionCall(r.org, r.name, r.repo_node_id,
                                      r.branch_protection_diffs[x])]

\* The ids an Update carries are the observed ones: the node id of the repo
\* and, for the Update or Delete of a protection, its database id.
CarriesObservedIds(u) ==
    /\ <<u.org, u.name>> \in DOMAIN gh.repos
    /\ u.repo_node_id = gh.repos[<<u.org, u.name>>].node_id
    /\ \A x \in 1..Len(u.branch_protection_diffs) :
        LET b == u.branch_protection_diffs[x]
            observed == gh.repos[<<u.org, u.name>>].protections
        IN  b.operation.tag \in {"Update", "Delete"} =>
                /\ b.pattern \in DOMAIN observed
                /\ b.operation.id = observed[b.pattern].id

\* C27: a protection Create is written with
\* upsert_branch_protection(CreateForRepo(node id of the repo)), for a newly
\* created repo the node id returned by create_repo in the same apply; an
\* Update with upsert_branch_protection(UpdateBranchProtection(observed
\* database id)) carrying the new protection; a Delete with
\* delete_branch_protection(org, repo name, database id).
C27_ProtectionWriteDispatch ==
    /\ Diffed => \A j \in Updates : CarriesObservedIds(diff.repo_diffs[j])
    /\ Applied =>
        \A j \in RepoEntries :
            LET ws == ProtectionWrites(j)
                claimed == ClaimedProtectionCalls(j)
            IN  /\ Len(ws) <= Len(claimed)
                /\ \A x \in 1..Len(ws) : CallOf(ws[x]) = claimed[x]
                /\ RepoEntryCompleted(j) => Len(ws) = Len(claimed)

\* An Update and a Delete of observed protections were written for a repo
\* that exists.
C27_Witness ==
    /\ Applied
    /\ last = "ok"
    /\ \E j \in Updates :
        /\ \E x \in 1..Len(ProtectionWrites(j)) :
            /\ ProtectionWrites(j)[x].op = "upsert_branch_protection"
            /\ ProtectionWrites(j)[x].args.op = [tag |-> "UpdateBranchProtection", id |-> 11]
        /\ \E x \in 1..Len(ProtectionWrites(j)) :
            /\ ProtectionWrites(j)[x].op = "delete_branch_protection"
            /\ ProtectionWrites(j)[x].args.id = 12

\* A protection was created for a repo that exists, by the observed node id.
C27_WitnessCreate ==
    /\ Applied
    /\ last = "ok"
    /\ \E j \in Updates :
        /\ Len(ProtectionWrites(j)) = 1
        /\ ProtectionWrites(j)[1].op = "upsert_branch_protection"
        /\ ProtectionWrites(j)[1].args.op = [tag |-> "CreateForRepo", id |-> 1]

\* A protection was created for a repo created by the same apply, by the node
\* id the repo now has.
C27_WitnessNewRepo ==
    /\ Applied
    /\ last = "ok"
    /\ \E j \in Creates :
        /\ EntryWrites(<<"repo", j>>)[1].op = "create_repo"
        /\ Len(ProtectionWrites(j)) = 1
        /\ ProtectionWrites(j)[1].args.op.tag = "CreateForRepo"
        /\ ProtectionWrites(j)[1].args.op.id =
               gh.repos[<<diff.repo_diffs[j].org, diff.repo_diffs[j].name>>].node_id
        /\ ProtectionWrites(j)[1].args.op.id # 0

-----------------------------------------------------------------------------
(* C28: a declared approval count beyond 8 bits *)

\* create_diff has just ended, with a Diff or with a panic.
DiffEnded == pc \in {"diffed", "panicked"}

\* The declared protections that create_diff projects, as <<repo, number>>:
\* those of a repo the provider does not have, and those of an existing repo
\* unless its protections are left alone.
ProjectedProtections ==
    UNION {{<<i, k>> : k \in 1..Len(repos[i].branch_protections)} :
           i \in {x \in 1..Len(repos) :
                     \/ <<repos[x].org, repos[x].name>> \notin DOMAIN gh.repos
                     \/ uses_pat
                     \/ <<repos[x].org, repos[x].name>> # <<"rust-lang", "rust">>}}

DeclaredProtection(ik) == repos[ik[1]].branch_protections[ik[2]]

DeclaresCountBeyondU8(ik) ==
    /\ DeclaredProtection(ik).mode.tag = "PrRequired"
    /\ DeclaredProtection(ik).mode.required_approvals > U8Max

\* The projected protections that the Diff holds for entry j of repo_diffs
CarriedProtections(j) ==
    LET r == diff.repo_diffs[j]
    IN  IF r.kind = "Create"
        THEN {r.branch_protections[x][2] : x \in 1..Len(r.branch_protections)}
        ELSE {r.branch_protection_diffs[x].operation.new :
                x \in {y \in 1..Len(r.branch_protection_diffs) :
                          r.branch_protection_diffs[y].operation.tag # "Delete"}}

\* Every protection the Diff holds has the declared count when the effective
\* mode is PrRequired.
CarriesDeclaredCounts ==
    \A j \in RepoEntries : \A bp \in CarriedProtections(j) :
        \A k \in 1..Len(repos[DeclaredRepoOf(j)].branch_protections) :
            LET declared == repos[DeclaredRepoOf(j)].branch_protections[k]
            IN  (/\ declared.pattern = bp.pattern
                 /\ declared.merge_bots = <<>>
                 /\ declared.mode.tag = "PrRequired")
                => bp.required_approving_review_count = declared.mode.required_approvals

\* An abort is immediate: nothing is read for the declared repos after the
\* one whose protection was being projected, and there is no Diff.
AbortedAt(i) ==
    /\ pc = "panicked"
    /\ diff = EmptyDiff
    /\ \A x \in 1..Len(reads) : \A y \in (i + 1)..Len(repos) :
        reads[x].op = "repo" => reads[x].args # <<repos[y].org, repos[y].name>>

\* C28 as claimed: projecting any declared protection whose declared
\* required_approvals does not fit in 8 bits aborts immediately instead of
\* producing a protection; for values 0..255 the projected
\* required_approving_review_count equals the declared value when the
\* effective mode is PrRequired.
C28_AbortsBeyondU8 ==
    DiffEnded =>
        /\ \A ik \in ProjectedProtections : DeclaresCountBeyondU8(ik) => AbortedAt(ik[1])
        /\ Diffed => CarriesDeclaredCounts

\* C28 amended: the projection aborts when the count does not fit in 8 bits
\* and the effective mode is PrRequired, that is when the protection declares
\* no merge bot; with a merge bot the declared count is not looked at and a
\* protection with count 0 is produced.
C28_AbortsBeyondU8WhenPrRequired ==
    DiffEnded =>
        /\ \A ik \in ProjectedProtections :
            DeclaresCountBeyondU8(ik) =>
                IF DeclaredProtection(ik).merge_bots = <<>>
                THEN AbortedAt(ik[1])
                ELSE /\ Diffed
                     /\ \A j \in RepoEntries : \A bp \in CarriedProtections(j) :
                            DeclaredRepoOf(j) = ik[1] =>
                                bp.required_approving_review_count = 0
        /\ Diffed => CarriesDeclaredCounts

\* A declared count of 256 with no merge bot was projected: create_diff
\* panicked before reading the next declared repo.
C28_Witness ==
    /\ pc = "panicked"
    /\ \E ik \in ProjectedProtections :
        /\ DeclaresCountBeyondU8(ik)
        /\ DeclaredProtection(ik).merge_bots = <<>>
    /\ Len(repos) = 2
    /\ \E x \in 1..Len(reads) :
        reads[x].op = "repo" /\ reads[x].args = <<repos[1].org, repos[1].name>>
    /\ \A x \in 1..Len(reads) :
        reads[x].op = "repo" => reads[x].args # <<repos[2].org, repos[2].name>>

\* A declared count of 255 was projected to 255.
C28_WitnessFits ==
    /\ Diffed
    /\ \E j \in RepoEntries : \E bp \in CarriedProtections(j) :
        bp.required_approving_review_count = U8Max

\* A declared count of 256 beside a merge bot was projected to 0.
C28_WitnessMergeBot ==
    /\ Diffed
    /\ \E ik \in ProjectedProtections :
        /\ DeclaresCountBeyondU8(ik)
        /\ DeclaredProtection(ik).merge_bots # <<>>
    /\ \E j \in RepoEntries : \E bp \in CarriedProtections(j) :
        bp.required_approving_review_count = 0

-----------------------------------------------------------------------------
(* C29: a declared member missing from the username cache *)

\* The declared members that usernames() gave no name for, as <<team, number>>
MissingMembers ==
    UNION {{<<i, k>> : k \in {x \in 1..Len(teams[i].members) :
                                teams[i].members[x] \notin DOMAIN usernames}} :
           i \in 1..Len(teams)}

\* Nothing was read for the declared teams after team i.
NoTeamReadAfter(i) ==
    \A x \in 1..Len(reads) : \A y \in (i + 1)..Len(teams) :
        reads[x].op = "team" => reads[x].args # <<teams[y].org, teams[y].name>>

\* The names a team diff lists for the declared members, in declaration order
ListedNames(d, n) ==
    IF d.kind = "Create"
    THEN [k \in 1..Len(d.members) |-> d.members[k][1]]
    ELSE [k \in 1..n |-> d.member_diffs[k][1]]

\* C29: if a declared team member's user id is not present in the username
\* cache returned by usernames() at startup, diffing that team aborts and no
\* Diff is returned; the member is never silently skipped or emitted with a
\* substitute name.
C29_UnknownMemberAborts ==
    /\ (run > 0 /\ MissingMembers # {}) =>
        /\ pc \in {"panicked", "errored"}
        /\ diff = EmptyDiff
        /\ writes = <<>>
        /\ pc = "panicked" => \E im \in MissingMembers : NoTeamReadAfter(im[1])
    /\ Diffed =>
        \A k \in 1..Len(diff.team_diffs) :
            diff.team_diffs[k].kind \in {"Create", "Edit"} =>
                \A i \in DeclaredFor(diff.team_diffs[k]) :
                    /\ diff.team_diffs[k].kind = "Create"
                              => Len(diff.team_diffs[k].members) = Len(teams[i].members)
                    /\ ListedNames(diff.team_diffs[k], Len(teams[i].members))
                         = [m \in 1..Len(teams[i].members) |->
                               usernames[teams[i].members[m]]]

\* A team that exists declares a member usernames() did not name beside one
\* it named: create_diff panicked after reading that team and before reading
\* the next one.
C29_Witness ==
    /\ pc = "panicked"
    /\ \E im \in MissingMembers :
        /\ im[1] \in ExistingTeams
        /\ \E k \in 1..Len(teams[im[1]].members) : <<im[1], k>> \notin MissingMembers
        /\ \E x \in 1..Len(reads) :
            /\ reads[x].op = "team_memberships"
            /\ reads[x].args = <<teams[im[1]].org, teams[im[1]].name>>
        /\ NoTeamReadAfter(im[1])
        /\ im[1] < Len(teams)

\* The same for a team that does not exist, whose Create would list the member.
C29_WitnessCreate ==
    /\ pc = "panicked"
    /\ \E im \in MissingMembers : im[1] \notin ExistingTeams

-----------------------------------------------------------------------------
(* C30: the Diff holds no no-op entry *)

\* A team Edit with no changed field whose member diffs are all Noop
IsNoopEdit(d) ==
    /\ d.kind = "Edit"
    /\ d.name_diff = None /\ d.description_diff = None /\ d.privacy_diff = None
    /\ \A x \in 1..Len(d.member_diffs) : d.member_diffs[x][2].tag = "Noop"

\* A repo Update archived on both sides, or with equal settings and nothing
\* in its two lists
IsNoopUpdate(r) ==
    /\ r.kind = "Update"
    /\ \/ r.settings_diff[1].archived /\ r.settings_diff[2].archived
       \/ /\ r.settings_diff[1] = r.settings_diff[2]
          /\ r.permission_diffs = <<>>
          /\ r.branch_protection_diffs = <<>>

\* C30: the Diff returned by diff_all contains no no-op entry: no team Edit
\* whose name, description and privacy diffs are all absent and whose member
\* diffs are all Noop, and no repo Update that is a no-op; so Diff::is_empty
\* holds exactly when no write would be issued by apply.  An apply that went
\* through issued a write for every entry.
C30_NoNoopEntries ==
    /\ (Diffed \/ Applied) =>
        /\ \A k \in 1..Len(diff.team_diffs) : ~IsNoopEdit(diff.team_diffs[k])
        /\ \A j \in 1..Len(diff.repo_diffs) : ~IsNoopUpdate(diff.repo_diffs[j])
    /\ Applied =>
        /\ (diff.team_diffs = <<>> /\ diff.repo_diffs = <<>>) <=> writes = <<>>
        /\ last = "ok" =>
            /\ \A k \in 1..Len(diff.team_diffs) : EntryWrites(<<"team", k>>) # <<>>
            /\ \A j \in 1..Len(diff.repo_diffs) : EntryWrites(<<"repo", j>>) # <<>>

\* A declared team whose members all have their role on the provider, or a
\* declared repo archived on both sides with other settings, left an empty
\* Diff, and its apply wrote nothing.
C30_Witness ==
    /\ Applied
    /\ diff = EmptyDiff
    /\ writes = <<>>
    /\ \/ \E i \in ExistingTeams : teams[i].members # <<>>
       \/ \E i \in 1..Len(repos) :
            /\ <<repos[i].org, repos[i].name>> \in DOMAIN gh.repos
            /\ repos[i].archived
            /\ gh.repos[<<repos[i].org, repos[i].name>>].archived
            /\ gh.repos[<<repos[i].org, repos[i].name>>].description
                   # repos[i].description

\* The repo case of the witness alone
C30_WitnessArchived ==
    /\ Applied
    /\ diff = EmptyDiff
    /\ \E i \in 1..Len(repos) :
        /\ <<repos[i].org, repos[i].name>> \in DOMAIN gh.repos
        /\ repos[i].archived
        /\ gh.repos[<<repos[i].org, repos[i].name>>].archived
        /\ gh.repos[<<repos[i].org, repos[i].name>>].description # repos[i].description

-----------------------------------------------------------------------------
(* C31: a declared team is never deleted *)

DeletedTeams == {k \in 1..Len(diff.team_diffs) : diff.team_diffs[k].kind = "Delete"}

\* C31: in any Diff produced by diff_teams, no Delete has the org and name of
\* a declared team, so no team is both created or edited and deleted in the
\* same Diff.
C31_DeclaredTeamNeverDeleted ==
    Diffed =>
        \A k \in DeletedTeams :
            /\ \A i \in 1..Len(teams) :
                ~(/\ teams[i].org = diff.team_diffs[k].org
                  /\ teams[i].name = diff.team_diffs[k].name)
            /\ \A x \in 1..Len(diff.team_diffs) :
                (/\ diff.team_diffs[x].org = diff.team_diffs[k].org
                 /\ diff.team_diffs[x].name = diff.team_diffs[k].name) => x = k

\* A declared team that the provider has is edited, and another team of its
\* org, which the declaration does not name, is deleted by the same Diff.
C31_Witness ==
    /\ Diffed
    /\ \E k \in DeletedTeams : \E x \in 1..Len(diff.team_diffs) :
        /\ diff.team_diffs[x].kind = "Edit"
        /\ diff.team_diffs[x].org = diff.team_diffs[k].org
        /\ <<diff.team_diffs[x].org, diff.team_diffs[x].name>> \in DOMAIN gh.teams
        /\ \E i \in 1..Len(teams) :
            /\ teams[i].org = diff.team_diffs[x].org
            /\ teams[i].name = diff.team_diffs[x].name

\* A declared team that the provider has, in need of no change, stays out of
\* a Diff that deletes another team of its org.
C31_WitnessUnchanged ==
    /\ Diffed
    /\ \E k \in DeletedTeams : \E i \in ExistingTeams :
        /\ teams[i].org = diff.team_diffs[k].org
        /\ \A x \in 1..Len(diff.team_diffs) :
            diff.team_diffs[x].name # teams[i].name

-----------------------------------------------------------------------------
(* C32: edit_repo at most once per Update *)

\* The edit_repo calls issued for entry j of repo_diffs
EditRepoWrites(j) ==
    SelectSeq(EntryWrites(<<"repo", j>>), LAMBDA w : w.op = "edit_repo")

\* Archived on both sides: the Update changes nothing on the provider.
BothArchived(u) == u.settings_diff[1].archived /\ u.settings_diff[2].archived

\* C32: applying one repo Update issues edit_repo at most once: exactly once
\* if it is an unarchive or the old and new settings differ (and the repo is
\* not frozen), and never when old and new settings are equal.  An apply cut
\* short by a failing write may not have reached its edit_repo.
C32_EditRepoAtMostOnce ==
    Applied =>
        \A j \in Updates :
            LET u == diff.repo_diffs[j]
                n == Len(EditRepoWrites(j))
            IN  /\ n <= 1
                /\ n = 1 => EditRepoWrites(j)[1].args =
                                [org |-> u.org, name |-> u.name,
                                 settings |-> u.settings_diff[2]]
                /\ u.settings_diff[1] = u.settings_diff[2] => n = 0
                /\ BothArchived(u) => n = 0
                /\ (RepoEntryCompleted(j) /\ ~BothArchived(u)
                    /\ u.settings_diff[1] # u.settings_diff[2]) => n = 1

\* An unarchive that also changes another setting and has permission diffs
\* was applied with one edit_repo, its first write.
C32_Witness ==
    /\ Applied
    /\ last = "ok"
    /\ \E j \in Updates :
        LET u == diff.repo_diffs[j]
        IN  /\ u.settings_diff[1].archived /\ ~u.settings_diff[2].archived
            /\ Len(EntryWrites(<<"repo", j>>)) > 1
            /\ Len(EditRepoWrites(j)) = 1
            /\ EntryWrites(<<"repo", j>>)[1].op = "edit_repo"

\* An Update with equal settings was applied with other writes and no
\* edit_repo.
C32_WitnessEqual ==
    /\ Applied
    /\ last = "ok"
    /\ \E j \in Updates :
        /\ diff.repo_diffs[j].settings_diff[1] = diff.repo_diffs[j].settings_diff[2]
        /\ EntryWrites(<<"repo", j>>) # <<>>
        /\ EditRepoWrites(j) = <<>>

-----------------------------------------------------------------------------
(* C33: a repo declared archived is archived by the run after its creation *)

\* The declared repos that are declared archived and that the preceding
\* apply, with every write succeeding, created
NewArchivedRepos ==
    {i \in 1..Len(repos) :
        /\ repos[i].archived
        /\ last = "ok"
        /\ \E k \in 1..Len(writes) :
            /\ writes[k].op = "create_repo"
            /\ writes[k].args.org = repos[i].org
            /\ writes[k].args.name = repos[i].name}

\* The entries of a Diff for the declared repo number i
EntriesIn(d, i) ==
    {j \in 1..Len(d.repo_diffs) :
        d.repo_diffs[j].org = repos[i].org /\ d.repo_diffs[j].name = repos[i].name}

\* An Update of the declared repo number i whose settings change is archived
\* false to true
ArchivingUpdates(i) ==
    {j \in EntriesIn(diff, i) :
        /\ diff.repo_diffs[j].kind = "Update"
        /\ ~diff.repo_diffs[j].settings_diff[1].archived
        /\ diff.repo_diffs[j].settings_diff[2].archived}

\* C33: a declared repo with archived = true that does not exist on the
\* provider is archived only by the run after its creation: the first run
\* creates it unarchived, the second run's diff contains an Update for it
\* whose settings change is archived false to true and whose apply ends with
\* edit_repo, and after that second apply the recomputed diff has no entry
\* for the repo.
C33_ArchivedByTheNextRun ==
    /\ Applied =>
        \A i \in NewArchivedRepos :
            /\ ~gh.repos[<<repos[i].org, repos[i].name>>].archived
            /\ \A k \in 1..Len(writes) :
                (/\ writes[k].op \in {"create_repo", "edit_repo"}
                 /\ writes[k].args.org = repos[i].org
                 /\ writes[k].args.name = repos[i].name)
                => /\ writes[k].op = "create_repo"
                   /\ ~writes[k].args.settings.archived
    /\ Diffed =>
        \A i \in NewArchivedRepos :
            /\ Cardinality(EntriesIn(diff, i)) = 1
            /\ ArchivingUpdates(i) = EntriesIn(diff, i)
            /\ \A j \in ArchivingUpdates(i) :
                diff.repo_diffs[j].settings_diff[1] =
                    [diff.repo_diffs[j].settings_diff[2] EXCEPT !.archived = FALSE]
    /\ (Applied /\ last = "ok") =>
        \A i \in 1..Len(repos) : \A j \in ArchivingUpdates(i) :
            LET ws == EntryWrites(<<"repo", j>>)
            IN  /\ ws # <<>>
                /\ ws[Len(ws)].op = "edit_repo"
                /\ ws[Len(ws)].args.settings = diff.repo_diffs[j].settings_diff[2]
                /\ gh.repos[<<repos[i].org, repos[i].name>>].archived
                /\ EntriesIn(diff_all(gh), i) = {}

\* The second run archived, with one edit_repo, a repo that the first run
\* created (its node id is one the provider gave out during the first apply).
C33_Witness ==
    /\ Applied
    /\ last = "ok"
    /\ run = 2
    /\ \E i \in 1..Len(repos) : \E j \in ArchivingUpdates(i) :
        /\ repos[i].archived
        /\ gh.repos[<<repos[i].org, repos[i].name>>].node_id >= EmptyGh.next_id
        /\ gh.repos[<<repos[i].org, repos[i].name>>].archived
        /\ Len(writes) = 1
        /\ writes[1].op = "edit_repo"
        /\ writes[1].entry = <<"repo", j>>

\* The state between the two runs: the repo exists unarchived and the second
\* diff holds its archiving Update.
C33_WitnessBetween ==
    /\ Diffed
    /\ run = 2
    /\ \E i \in NewArchivedRepos :
        /\ ~gh.repos[<<repos[i].org, repos[i].name>>].archived
        /\ ArchivingUpdates(i) # {}
        /\ Len(writes) = 3

====
